---------------------------- MODULE Spec2Model ----------------------------
(***************************************************************************)
(* A model of the firebase-mcp request pipeline: the in-memory fixed       *)
(* window RateLimiter (src/utils/firebase-client.ts), the security checks  *)
(* of the Firebase services (src/services/firebase-service.ts), the        *)
(* response envelope helpers (src/utils/error-handler.ts), the tool        *)
(* handlers built from them (src/handlers/*.ts), the argument validators   *)
(* (src/utils/validation.ts), the tool functions that call them            *)
(* (src/tools/firestore-tools.ts), the layered configuration (getConfig),  *)
(* the batched deleteCollection, the cached getUser and the query limit.   *)
(***************************************************************************)
EXTENDS Integers, Sequences, FiniteSets, TLC

(***************************************************************************)
(* Bounds of the model.  Time is counted in milliseconds and advances in   *)
(* steps of Granule ms.                                                    *)
(***************************************************************************)
Granule == 500
MaxTicks == 4
MaxWindowTicks == 2
MaxRequestsBound == 2
ExtraHits == 2

MsPerSecond == 1000

MaxTime == Granule * MaxTicks

VARIABLES
  now,        \* the value Date.now() returns
  config,     \* RateLimiter.config: [maxRequests, windowMs]
  requests,   \* RateLimiter.requests: key -> RequestRecord, or NoRecord
  winOpen,    \* history: when the current window of a key was opened, or -1
  hits,       \* history: check(key) calls made since that window was opened
  admitted,   \* history: how many of them returned true
  last,       \* history: the last RateLimiter call and what it returned
  policy,     \* securityConfig
  session,    \* the tool this session's client calls
  inv,        \* the handler invocations: slot -> its position and history
  arg,        \* the arguments of a function called on its own
  res         \* what that call returned or threw

rlVars == <<now, config, requests, winOpen, hits, admitted, last>>

pipeVars == <<policy, session, inv, arg, res>>

vars ==
  <<now, config, requests, winOpen, hits, admitted, last, policy, session, inv,
    arg, res>>

NoRecord == [count |-> 0, resetTime |-> 0]

RLKeys == {"get_document", "list_users"}

Keys ==
  {"get_document", "query_collection", "add_document", "set_document",
   "update_document", "delete_document", "batch_write", "delete_collection",
   "list_users", "get_user", "create_user", "update_user", "delete_user",
   "set_custom_claims", "list_files", "get_file_metadata", "get_download_url",
   "get_upload_url", "delete_file"}

NoCall == [op |-> "none", key |-> "", t |-> 0, ret |-> FALSE, opened |-> FALSE,
           n |-> 0, prev |-> 0, status |-> NoRecord, wait |-> 0]

(***************************************************************************)
(* RateLimiter                                                             *)
(***************************************************************************)

\* new RateLimiter(config): a missing (0) field takes its default.
RateLimiterConfig(maxRequests, windowMs) ==
  [maxRequests |-> IF maxRequests = 0 THEN 100 ELSE maxRequests,
   windowMs    |-> IF windowMs = 0 THEN 60000 ELSE windowMs]

\* Math.floor in place of Math.ceil
Floor(a, b) == a \div b

\* Math.ceil(a / b) for a >= 0, b > 0
Ceil(a, b) == (a + b - 1) \div b

\* a cleanup that keeps a record until its resetTime has been passed
cleanupLate(reqs, t) ==
  [k \in DOMAIN reqs |->
     IF reqs[k] # NoRecord /\ t > reqs[k].resetTime THEN NoRecord ELSE reqs[k]]

\* cleanup(): delete every record whose resetTime has been reached at time t.
cleanup(reqs, t) ==
  [k \in DOMAIN reqs |->
     IF reqs[k] # NoRecord /\ t >= reqs[k].resetTime THEN NoRecord ELSE reqs[k]]

\* checkRateLimit with `>=` for `>`: rejects the maxRequests-th call already.
checkRateLimitOffByOne(reqs, key, t1, t2, cfg) ==
  LET record  == reqs[key]
      cleaned == cleanup(reqs, t2)
  IN  IF record = NoRecord \/ t1 >= record.resetTime
      THEN [requests |-> [cleaned EXCEPT ![key] =
                            [count |-> 1, resetTime |-> t1 + cfg.windowMs]],
            threw |-> FALSE, wait |-> 0]
      ELSE [requests |-> IF cleaned[key] # NoRecord
                         THEN [cleaned EXCEPT ![key].count = record.count + 1]
                         ELSE cleaned,
            threw |-> record.count + 1 >= cfg.maxRequests,
            wait  |-> Ceil(record.resetTime - t1, MsPerSecond)]

\* checkRateLimit that tests the limit before counting and does not count a
\* rejected call.
checkRateLimitNoCountOnReject(reqs, key, t1, t2, cfg) ==
  LET record  == reqs[key]
      cleaned == cleanup(reqs, t2)
  IN  IF record = NoRecord \/ t1 >= record.resetTime
      THEN [requests |-> [cleaned EXCEPT ![key] =
                            [count |-> 1, resetTime |-> t1 + cfg.windowMs]],
            threw |-> FALSE, wait |-> 0]
      ELSE IF record.count + 1 > cfg.maxRequests
      THEN [requests |-> cleaned, threw |-> TRUE,
            wait |-> Ceil(record.resetTime - t1, MsPerSecond)]
      ELSE [requests |-> IF cleaned[key] # NoRecord
                         THEN [cleaned EXCEPT ![key].count = record.count + 1]
                         ELSE cleaned,
            threw |-> FALSE, wait |-> 0]

\* checkRateLimit that compares the count it read, not the count it wrote.
checkRateLimitStaleCompare(reqs, key, t1, t2, cfg) ==
  LET record  == reqs[key]
      cleaned == cleanup(reqs, t2)
  IN  IF record = NoRecord \/ t1 >= record.resetTime
      THEN [requests |-> [cleaned EXCEPT ![key] =
                            [count |-> 1, resetTime |-> t1 + cfg.windowMs]],
            threw |-> FALSE, wait |-> 0]
      ELSE [requests |-> IF cleaned[key] # NoRecord
                         THEN [cleaned EXCEPT ![key].count = record.count + 1]
                         ELSE cleaned,
            threw |-> record.count > cfg.maxRequests,
            wait  |-> Ceil(record.resetTime - t1, MsPerSecond)]

\* checkRateLimit with a rolling window: every call within the window moves
\* its end to windowMs after the call.
checkRateLimitRolling(reqs, key, t1, t2, cfg) ==
  LET record  == reqs[key]
      cleaned == cleanup(reqs, t2)
  IN  IF record = NoRecord \/ t1 >= record.resetTime
      THEN [requests |-> [cleaned EXCEPT ![key] =
                            [count |-> 1, resetTime |-> t1 + cfg.windowMs]],
            threw |-> FALSE, wait |-> 0]
      ELSE [requests |-> IF cleaned[key] # NoRecord
                         THEN [cleaned EXCEPT ![key] =
                                 [count |-> record.count + 1,
                                  resetTime |-> t1 + cfg.windowMs]]
                         ELSE cleaned,
            threw |-> record.count + 1 > cfg.maxRequests,
            wait  |-> Ceil(record.resetTime - t1, MsPerSecond)]

\* checkRateLimit(key).  t1 is the Date.now() read at its first line, t2 the
\* Date.now() read inside cleanup() (t2 >= t1).  The record is fetched before
\* cleanup runs; record.count++ changes the fetched object, which is the
\* map's entry unless cleanup has just deleted it.  threw: the RATE_LIMIT
\* FirebaseMcpError was thrown; wait: the seconds its message names.
checkRateLimit(reqs, key, t1, t2, cfg) ==
  LET record  == reqs[key]
      cleaned == cleanup(reqs, t2)
  IN  IF record = NoRecord \/ t1 >= record.resetTime
      THEN [requests |-> [cleaned EXCEPT ![key] =
                            [count |-> 1, resetTime |-> t1 + cfg.windowMs]],
            threw |-> FALSE, wait |-> 0]
      ELSE [requests |-> IF cleaned[key] # NoRecord
                         THEN [cleaned EXCEPT ![key].count = record.count + 1]
                         ELSE cleaned,
            threw |-> record.count + 1 > cfg.maxRequests,
            wait  |-> Ceil(record.resetTime - t1, MsPerSecond)]

\* check(key): checkRateLimit under try/catch; true unless it threw.
check(reqs, key, t1, t2, cfg) ==
  LET r == checkRateLimit(reqs, key, t1, t2, cfg)
  IN  [requests |-> r.requests, ret |-> ~r.threw, wait |-> r.wait]

\* reset that zeroes the count and keeps the record and its window
resetCountOnly(reqs, key) ==
  IF reqs[key] = NoRecord THEN reqs ELSE [reqs EXCEPT ![key].count = 0]

\* reset that clears the records of all keys
resetAll(reqs, key) == [k \in DOMAIN reqs |-> NoRecord]

\* reset(key): requests.delete(key)
reset(reqs, key) == [reqs EXCEPT ![key] = NoRecord]

\* getStatus(key): null (NoRecord) or {count, remainingTime}
getStatus(reqs, key, t) ==
  IF reqs[key] = NoRecord THEN NoRecord
  ELSE [count |-> reqs[key].count,
        resetTime |-> IF reqs[key].resetTime - t > 0 THEN reqs[key].resetTime - t ELSE 0]

(***************************************************************************)
(* History of the windows, kept beside the limiter: a window of key k is   *)
(* opened by the first check(k), by the first check(k) made once the       *)
(* previous window's windowMs have passed, and by the first check(k) after *)
(* reset(k).                                                               *)
(***************************************************************************)
WindowIsOpen(k, t) == winOpen[k] >= 0 /\ t < winOpen[k] + config.windowMs

\* Date.now() may advance between two reads made by one synchronous call.
Skews == {0, Granule}

Tick ==
  /\ now + Granule <= MaxTime
  /\ now' = now + Granule
  /\ UNCHANGED <<config, requests, winOpen, hits, admitted, last>>

\* One call of check(k) whose two clock reads are d ms apart and whose
\* result is r, with the history kept beside it.
CanCheck(k, d) ==
  /\ now + d <= MaxTime
  /\ WindowIsOpen(k, now) => hits[k] < config.maxRequests + ExtraHits

CheckCall(k, d, r) ==
  LET opens  == ~WindowIsOpen(k, now)
      n      == IF opens THEN 1 ELSE hits[k] + 1
      a      == (IF opens THEN 0 ELSE admitted[k]) + (IF r.ret THEN 1 ELSE 0)
  IN  /\ requests' = r.requests
      /\ now' = now + d
      /\ winOpen' = IF opens THEN [winOpen EXCEPT ![k] = now] ELSE winOpen
      /\ hits' = [hits EXCEPT ![k] = n]
      /\ admitted' = [admitted EXCEPT ![k] = a]

\* check(k) called directly
Check(k) ==
  \E d \in Skews :
    /\ CanCheck(k, d)
    /\ \E r \in {check(requests, k, now, now + d, config)} :
         /\ CheckCall(k, d, r)
         /\ last' = [op |-> "check", key |-> k, t |-> now, ret |-> r.ret,
                     opened |-> ~WindowIsOpen(k, now),
                     n |-> IF WindowIsOpen(k, now) THEN hits[k] + 1 ELSE 1,
                     prev |-> hits[k], status |-> NoRecord, wait |-> r.wait]
    /\ UNCHANGED config

Reset(k) ==
  /\ requests' = reset(requests, k)
  /\ winOpen' = [winOpen EXCEPT ![k] = -1]
  /\ hits' = [hits EXCEPT ![k] = 0]
  /\ admitted' = [admitted EXCEPT ![k] = 0]
  /\ last' = [NoCall EXCEPT !.op = "reset", !.key = k, !.t = now,
                            !.n = requests[k].count]
  /\ UNCHANGED <<now, config>>

GetStatus(k) ==
  /\ last' = [NoCall EXCEPT !.op = "getStatus", !.key = k, !.t = now,
                            !.status = getStatus(requests, k, now)]
  /\ UNCHANGED <<now, config, requests, winOpen, hits, admitted>>

InitRL ==
  /\ now = 0
  /\ \E n \in 1..MaxRequestsBound, w \in 1..MaxWindowTicks :
       config = RateLimiterConfig(n, w * Granule)
  /\ requests = [k \in Keys |-> NoRecord]
  /\ winOpen = [k \in Keys |-> -1]
  /\ hits = [k \in Keys |-> 0]
  /\ admitted = [k \in Keys |-> 0]
  /\ last = NoCall
  /\ policy = [readOnly |-> FALSE, allowedCollections |-> [present |-> FALSE, list |-> <<>>],
               disableAuth |-> FALSE, disableStorage |-> FALSE]
  /\ session = ""
  /\ inv = <<>>
  /\ arg = <<>>
  /\ res = <<>>

NextRL ==
  \/ Tick /\ UNCHANGED pipeVars
  \/ \E k \in RLKeys : Check(k) /\ UNCHANGED pipeVars
  \/ \E k \in RLKeys : Reset(k) /\ UNCHANGED pipeVars
  \/ \E k \in RLKeys : GetStatus(k) /\ UNCHANGED pipeVars

SpecRL == InitRL /\ [][NextRL]_vars

(***************************************************************************)
(* C1.  Of consecutive check(k) calls made within one window the first     *)
(* maxRequests return true and every later one, the (maxRequests+1)-th     *)
(* first, returns false; the first check(k) made once the window has       *)
(* passed returns true and leaves the record {count: 1, resetTime: now +   *)
(* windowMs}.                                                              *)
(***************************************************************************)
C1_WindowBudget ==
  last.op = "check" =>
    IF last.opened
    THEN /\ last.ret
         /\ requests[last.key] = [count |-> 1, resetTime |-> last.t + config.windowMs]
    ELSE last.ret <=> (last.n <= config.maxRequests)

\* the (maxRequests+1)-th call of a window has been rejected, and a window
\* has been reopened after an earlier one ran out
C1_Witness ==
  /\ last.op = "check" /\ ~last.opened
  /\ last.n = config.maxRequests + 1 /\ ~last.ret

C1_WitnessReopen ==
  /\ last.op = "check" /\ last.opened /\ last.t > 0 /\ last.ret

(***************************************************************************)
(* C2.  A record's count exceeds maxRequests only through rejected calls:  *)
(* a check(k) that returns true leaves count(k) <= maxRequests, a check(k) *)
(* that leaves count(k) > maxRequests returns false, and a rejected call   *)
(* is counted too: count(k) is the number of check(k) calls made since the *)
(* window was opened, of which at most maxRequests were admitted.          *)
(***************************************************************************)
C2_RejectOverLimit ==
  /\ \A k \in Keys :
       requests[k] # NoRecord =>
         /\ requests[k].count = hits[k]
         /\ admitted[k] <= config.maxRequests
         /\ requests[k].count > config.maxRequests =>
              requests[k].count - admitted[k] = hits[k] - config.maxRequests
  /\ (last.op = "check" /\ requests[last.key] # NoRecord) =>
       /\ last.ret => requests[last.key].count <= config.maxRequests
       /\ requests[last.key].count > config.maxRequests => ~last.ret

\* a second rejected call in one window: the count is two over the limit
C2_Witness ==
  /\ last.op = "check" /\ ~last.ret
  /\ requests[last.key] # NoRecord
  /\ requests[last.key].count = config.maxRequests + 2

(***************************************************************************)
(* Messages.  A message is the sequence of its words, punctuation apart;   *)
(* String.includes is the test for a contiguous run of words.              *)
(***************************************************************************)
Includes(msg, pat) ==
  \E i \in 0..(Len(msg) - Len(pat)) :
    \A j \in 1..Len(pat) : msg[i + j] = pat[j]

\* `${a}: ${b}`
Colon(a, b) == a \o <<":">> \o b

\* enum ErrorType
ErrorType ==
  [VALIDATION |-> "validation_error", PERMISSION |-> "permission_denied",
   NOT_FOUND |-> "not_found", NETWORK |-> "network_error",
   RATE_LIMIT |-> "rate_limit", INVALID_ARGUMENT |-> "invalid_argument",
   ALREADY_EXISTS |-> "already_exists", INTERNAL |-> "internal_error",
   AUTHORIZATION |-> "authorization_error", FIREBASE |-> "firebase_error",
   INVALID_PARAMS |-> "INVALID_PARAMS"]

ErrorTypes == {ErrorType[f] : f \in DOMAIN ErrorType}

\* Values that can be thrown or handed to createErrorResponse: a
\* FirebaseMcpError, a plain Error, a string, or nothing at all.
NoError == [cls |-> "none", type |-> "", message |-> <<>>]
McpError(type, message) == [cls |-> "FirebaseMcpError", type |-> type, message |-> message]
PlainError(message) == [cls |-> "Error", type |-> "", message |-> message]
StringValue(message) == [cls |-> "string", type |-> "", message |-> message]

MsgUnexpected == <<"An", "unexpected", "error", "occurred">>
MsgUnknown == <<"An", "unknown", "error", "occurred">>
MsgReadOnly ==
  <<"Server", "is", "in", "read-only", "mode", ".", "Write", "operations",
    "are", "not", "allowed", ".">>
MsgNotAllowed(c) ==
  <<"Access", "to", "collection", "'", c, "'", "is", "not", "allowed", ".">>
MsgDocNotFound(d, c) ==
  <<"Document", "'", d, "'", "not", "found", "in", "collection", "'", c, "'">>
MsgDataRequired(type) ==
  <<"Data", "is", "required", "for", "'", type, "'", "operations">>
MsgAuthDisabled == <<"Authentication", "operations", "are", "disabled", ".">>
MsgStorageDisabled == <<"Storage", "operations", "are", "disabled", ".">>
MsgRateLimit(tool) ==
  <<"Rate", "limit", "exceeded", "for", tool, ".", "Please", "try", "again", "later", ".">>
MsgTooManyListUsers ==
  <<"Too", "many", "list", "users", "requests", ".", "Please", "try", "again", "later", ".">>
MsgOnlyAdmin == <<"Only", "admin", "users", "can", "list", "users">>

(***************************************************************************)
(* JavaScript values, as far as the validators tell them apart.  A string  *)
(* is the sequence of its characters.                                      *)
(***************************************************************************)
JsUndefined == [t |-> "undefined"]
JsNull == [t |-> "null"]
JsString(s) == [t |-> "string", s |-> s]
JsNumber(n) == [t |-> "number", n |-> n]
JsBoolean(b) == [t |-> "boolean", b |-> b]
JsFunction == [t |-> "function"]
\* items: the elements in order
JsArray(items) == [t |-> "array", items |-> items]
\* fields: the own enumerable properties in order, each <<key, value>>
JsObject(fields) == [t |-> "object", fields |-> fields]

\* typeof v
typeof(v) ==
  IF v.t \in {"null", "array", "object"} THEN "object" ELSE v.t

\* !v
Falsy(v) ==
  \/ v.t \in {"undefined", "null"}
  \/ v.t = "string" /\ v.s = <<>>
  \/ v.t = "number" /\ v.n = 0
  \/ v.t = "boolean" /\ ~v.b

\* s.split(sep) for a one-character separator
RECURSIVE split(_, _)
split(s, sep) ==
  IF \A i \in 1..Len(s) : s[i] # sep THEN <<s>>
  ELSE LET i == CHOOSE j \in 1..Len(s) :
                  s[j] = sep /\ \A k \in 1..(j - 1) : s[k] # sep
       IN  <<SubSeq(s, 1, i - 1)>> \o split(SubSeq(s, i + 1, Len(s)), sep)

\* s.trim()
RECURSIVE trim(_)
trim(s) ==
  IF s = <<>> THEN s
  ELSE IF Head(s) = " " THEN trim(Tail(s))
  ELSE IF s[Len(s)] = " " THEN trim(SubSeq(s, 1, Len(s) - 1))
  ELSE s

\* s.includes('//')
IncludesSlashSlash(s) ==
  \E i \in 1..(Len(s) - 1) : s[i] = "/" /\ s[i + 1] = "/"

\* path.join('.'), each element of path a string
RECURSIVE join(_)
join(path) ==
  IF path = <<>> THEN <<>>
  ELSE IF Len(path) = 1 THEN path[1]
  ELSE path[1] \o <<".">> \o join(Tail(path))

\* index.toString()
Digits == <<"0", "1", "2", "3", "4", "5", "6", "7", "8", "9">>
RECURSIVE toString(_)
toString(n) ==
  IF n < 10 THEN <<Digits[n + 1]>> ELSE toString(n \div 10) \o <<Digits[(n % 10) + 1]>>

InvalidArgument(message) == McpError(ErrorType.INVALID_ARGUMENT, message)

(***************************************************************************)
(* Response envelopes (src/utils/error-handler.ts).  errorType "" is an    *)
(* envelope without the field.                                             *)
(***************************************************************************)

\* createErrorResponse(error, context): context "" (<<>>) is falsy.
createErrorResponse(error, context) ==
  LET errorType ==
        IF error.cls = "FirebaseMcpError" THEN error.type
        ELSE IF error.cls = "Error"
        THEN IF Includes(error.message, <<"permission">>) THEN ErrorType.PERMISSION
             ELSE IF Includes(error.message, <<"not", "found">>) THEN ErrorType.NOT_FOUND
             ELSE IF Includes(error.message, <<"already", "exists">>)
                  THEN ErrorType.ALREADY_EXISTS
             ELSE ErrorType.INTERNAL
        ELSE ErrorType.INTERNAL
      message ==
        IF error.cls \in {"FirebaseMcpError", "Error"} THEN error.message
        ELSE MsgUnexpected
  IN  [isError |-> TRUE, errorType |-> errorType,
       text |-> IF context # <<>> THEN Colon(context, message) ELSE message]

\* JSON.stringify(value) and JSON.parse(text).  A text is the sequence of
\* its characters, the words null, true and false standing as one each.
Omitted(v) == v.t \in {"undefined", "function"}

RECURSIVE escape(_)
escape(s) ==
  IF s = <<>> THEN <<>>
  ELSE (IF Head(s) \in {"\"", "\\"} THEN <<"\\", Head(s)>> ELSE <<Head(s)>>)
         \o escape(Tail(s))

quote(s) == <<"\"">> \o escape(s) \o <<"\"">>

RECURSIVE JSONtext(_)
RECURSIVE JSONitems(_)
RECURSIVE JSONfields(_)
\* a property whose value is undefined or a function is left out
JSONfields(fields) ==
  IF fields = <<>> THEN <<>>
  ELSE IF Omitted(fields[1][2]) THEN JSONfields(Tail(fields))
  ELSE LET rest == JSONfields(Tail(fields))
       IN  quote(fields[1][1]) \o <<":">> \o JSONtext(fields[1][2])
             \o (IF rest # <<>> THEN <<",">> ELSE <<>>) \o rest

\* an item that is undefined or a function is written as null
JSONitems(items) ==
  IF items = <<>> THEN <<>>
  ELSE (IF Omitted(items[1]) THEN <<"null">> ELSE JSONtext(items[1]))
         \o (IF Len(items) > 1 THEN <<",">> ELSE <<>>) \o JSONitems(Tail(items))

JSONtext(v) ==
  CASE v.t = "null" -> <<"null">>
    [] v.t = "boolean" -> IF v.b THEN <<"true">> ELSE <<"false">>
    [] v.t = "number" -> IF v.n < 0 THEN <<"-">> \o toString(-v.n) ELSE toString(v.n)
    [] v.t = "string" -> quote(v.s)
    [] v.t = "array" -> <<"[">> \o JSONitems(v.items) \o <<"]">>
    [] OTHER -> <<"{">> \o JSONfields(v.fields) \o <<"}">>

\* JSON.stringify(undefined) is undefined, no text
JSONstringify(v) == IF Omitted(v) THEN JsUndefined ELSE JSONtext(v)

DigitValue(c) == CHOOSE d \in 0..9 : Digits[d + 1] = c
IsDigit(c) == \E d \in 0..9 : Digits[d + 1] = c

\* the parsers: each takes the text left to read and returns the value
\* read and the text after it
RECURSIVE parseString(_, _)
parseString(text, acc) ==
  IF Head(text) = "\"" THEN [value |-> acc, rest |-> Tail(text)]
  ELSE IF Head(text) = "\\" THEN parseString(Tail(Tail(text)), Append(acc, text[2]))
  ELSE parseString(Tail(text), Append(acc, Head(text)))

RECURSIVE parseDigits(_, _)
parseDigits(text, n) ==
  IF text # <<>> /\ IsDigit(Head(text))
  THEN parseDigits(Tail(text), 10 * n + DigitValue(Head(text)))
  ELSE [value |-> n, rest |-> text]

RECURSIVE parseValue(_)
RECURSIVE parseItems(_, _)
RECURSIVE parseFields(_, _)
parseItems(text, acc) ==
  LET r == parseValue(text)
      items == Append(acc, r.value)
  IN  IF Head(r.rest) = "]" THEN [value |-> JsArray(items), rest |-> Tail(r.rest)]
      ELSE parseItems(Tail(r.rest), items)

parseFields(text, acc) ==
  LET k == parseString(Tail(text), <<>>)
      r == parseValue(Tail(k.rest))
      fields == Append(acc, <<k.value, r.value>>)
  IN  IF Head(r.rest) = "}" THEN [value |-> JsObject(fields), rest |-> Tail(r.rest)]
      ELSE parseFields(Tail(r.rest), fields)

parseValue(text) ==
  LET h == Head(text)
  IN  CASE h = "null" -> [value |-> JsNull, rest |-> Tail(text)]
        [] h = "true" -> [value |-> JsBoolean(TRUE), rest |-> Tail(text)]
        [] h = "false" -> [value |-> JsBoolean(FALSE), rest |-> Tail(text)]
        [] h = "\"" -> LET r == parseString(Tail(text), <<>>)
                       IN  [value |-> JsString(r.value), rest |-> r.rest]
        [] h = "[" -> IF text[2] = "]"
                      THEN [value |-> JsArray(<<>>), rest |-> Tail(Tail(text))]
                      ELSE parseItems(Tail(text), <<>>)
        [] h = "{" -> IF text[2] = "}"
                      THEN [value |-> JsObject(<<>>), rest |-> Tail(Tail(text))]
                      ELSE parseFields(Tail(text), <<>>)
        [] h = "-" -> LET r == parseDigits(Tail(text), 0)
                      IN  [value |-> JsNumber(-r.value), rest |-> r.rest]
        [] OTHER -> LET r == parseDigits(text, 0)
                    IN  [value |-> JsNumber(r.value), rest |-> r.rest]

JSONparse(text) == parseValue(text).value

\* the data the handlers hand to createSuccessResponse: a string, or an
\* object of string properties given as a sequence of <<key, words>>
StringData(words) == JsString(words)
ObjectData(fields) ==
  JsObject([i \in DOMAIN fields |-> <<<<fields[i][1]>>, JsString(fields[i][2])>>])

\* a createSuccessResponse that stringifies strings as well
createSuccessResponseStringifyAll(data) ==
  [isError |-> FALSE, errorType |-> "", text |-> JSONstringify(data)]

\* createSuccessResponse(data)
createSuccessResponse(data) ==
  [isError |-> FALSE, errorType |-> "",
   text |-> IF typeof(data) = "string" THEN data.s ELSE JSONstringify(data)]

\* getErrorMessage(error)
getErrorMessage(error) ==
  IF error.cls \in {"FirebaseMcpError", "Error", "string"} THEN error.message
  ELSE MsgUnknown

\* What one run of a handler produced: a returned envelope or a thrown error.
NoOutcome == [kind |-> "none", env |-> [isError |-> FALSE, errorType |-> "", text |-> <<>>],
              err |-> NoError]
Returned(env) == [kind |-> "return", env |-> env, err |-> NoError]
Thrown(err) == [kind |-> "throw", env |-> NoOutcome.env, err |-> err]

\* new FirebaseMcpError(type, message, originalError)
WrappedError(type, message, originalError) ==
  [cls |-> "FirebaseMcpError", type |-> type, message |-> message,
   originalError |-> originalError]

\* a withErrorHandling that wraps whatever was thrown
withErrorHandlingWrapAll(outcome, context) ==
  IF outcome.kind # "throw" THEN outcome
  ELSE Thrown(WrappedError(ErrorType.INTERNAL,
                           IF context # <<>>
                           THEN Colon(context, getErrorMessage(outcome.err))
                           ELSE getErrorMessage(outcome.err),
                           outcome.err))

\* withErrorHandling(handler, context): a FirebaseMcpError is rethrown, any
\* other thrown value is rethrown wrapped as INTERNAL, with the value as its
\* originalError; a return passes.
withErrorHandling(outcome, context) ==
  IF outcome.kind # "throw" THEN outcome
  ELSE IF outcome.err.cls = "FirebaseMcpError" THEN outcome
  ELSE Thrown(WrappedError(ErrorType.INTERNAL,
                           IF context # <<>>
                           THEN Colon(context, getErrorMessage(outcome.err))
                           ELSE getErrorMessage(outcome.err),
                           outcome.err))

(***************************************************************************)
(* Security policy (securityConfig) and the services' gates                *)
(* (src/services/firebase-service.ts).                                     *)
(***************************************************************************)
Collections == {"users", "posts"}
DocId == "doc1"
Uid == "u1"
FilePath == "f1"

\* allowedCollections: absent, [] or a list
AllowLists ==
  {[present |-> FALSE, list |-> <<>>], [present |-> TRUE, list |-> <<>>],
   [present |-> TRUE, list |-> <<"users">>]}

Policies ==
  [readOnly : BOOLEAN, allowedCollections : AllowLists,
   disableAuth : BOOLEAN, disableStorage : BOOLEAN]

\* allowedCollections?.length && !allowedCollections.includes(collection)
CollectionDenied(pol, collection) ==
  /\ pol.allowedCollections.present
  /\ Len(pol.allowedCollections.list) > 0
  /\ \A i \in 1..Len(pol.allowedCollections.list) :
       pol.allowedCollections.list[i] # collection

checkCollectionAccess(pol, collection) ==
  IF pol.readOnly THEN PlainError(MsgReadOnly)
  ELSE IF CollectionDenied(pol, collection) THEN PlainError(MsgNotAllowed(collection))
  ELSE NoError

\* the read path with the write path's check: readOnly refuses it
checkCollectionReadAsWrite(pol, collection) ==
  IF pol.readOnly THEN PlainError(MsgReadOnly)
  ELSE IF CollectionDenied(pol, collection) THEN PlainError(MsgNotAllowed(collection))
  ELSE NoError

\* the check getDocument and queryCollection make themselves
checkCollectionRead(pol, collection) ==
  IF CollectionDenied(pol, collection) THEN PlainError(MsgNotAllowed(collection))
  ELSE NoError

checkAuthAccess(pol) ==
  IF pol.disableAuth THEN PlainError(MsgAuthDisabled) ELSE NoError

checkAuthWriteAccess(pol) ==
  IF checkAuthAccess(pol) # NoError THEN checkAuthAccess(pol)
  ELSE IF pol.readOnly THEN PlainError(MsgReadOnly)
  ELSE NoError

checkStorageAccess(pol) ==
  IF pol.disableStorage THEN PlainError(MsgStorageDisabled) ELSE NoError

checkStorageWriteAccess(pol) ==
  IF checkStorageAccess(pol) # NoError THEN checkStorageAccess(pol)
  ELSE IF pol.readOnly THEN PlainError(MsgReadOnly)
  ELSE NoError

\* Methods of the platform client objects (the collaborators).
BatchMethod(type) ==
  CASE type = "set" -> "batch.set"
    [] type = "update" -> "batch.update"
    [] OTHER -> "batch.delete"

\* methods that change platform state, or hand out the means to (a signed
\* upload URL)
WriteMethods ==
  {"collection.add", "doc.set", "doc.update", "doc.delete", "batch.commit",
   "auth.createUser", "auth.updateUser", "auth.deleteUser",
   "auth.setCustomUserClaims", "file.getSignedUrl(write)", "file.delete"}

\* methods that only fill a local WriteBatch
StagingMethods == {"db.batch", "batch.set", "batch.update", "batch.delete"}

ReadMethods ==
  {"doc.get", "query.get", "auth.listUsers", "auth.getUser", "bucket.getFiles",
   "file.getMetadata", "file.getSignedUrl(read)"}

\* batchWrite(operations) up to its first await: the read-only check, then
\* the loop that checks and stages one operation after the other, then the
\* call of commit.  error: what it threw; calls: the methods it invoked.
OpFailure(pol, op) ==
  IF CollectionDenied(pol, op.collection) THEN PlainError(MsgNotAllowed(op.collection))
  ELSE IF op.type \in {"set", "update"} /\ ~op.hasData
  THEN PlainError(MsgDataRequired(op.type))
  ELSE NoError

\* batchWrite without the loop's check of each operation's collection
batchWriteUnchecked(pol, operations) ==
  LET staged == {BatchMethod(operations[i].type) : i \in 1..Len(operations)}
  IN  IF pol.readOnly THEN [error |-> PlainError(MsgReadOnly), calls |-> {}]
      ELSE [error |-> NoError, calls |-> {"db.batch", "batch.commit"} \cup staged]

batchWrite(pol, operations) ==
  LET bad   == {i \in 1..Len(operations) : OpFailure(pol, operations[i]) # NoError}
      first == IF bad = {} THEN Len(operations) + 1
               ELSE CHOOSE i \in bad : \A j \in bad : i <= j
      staged == {BatchMethod(operations[i].type) : i \in 1..(first - 1)}
  IN  IF pol.readOnly THEN [error |-> PlainError(MsgReadOnly), calls |-> {}]
      ELSE IF bad # {}
      THEN [error |-> OpFailure(pol, operations[first]),
            calls |-> {"db.batch"} \cup staged]
      ELSE [error |-> NoError, calls |-> {"db.batch", "batch.commit"} \cup staged]

(***************************************************************************)
(* The tools registered by src/handlers/*.ts.  For each: the service       *)
(* method its handler awaits, the gate that method runs first, the         *)
(* collaborator method it then awaits, and the branches of the handler's   *)
(* catch block: the substrings tested, in the order tested, with the       *)
(* message and the ErrorType handed to createErrorResponse.                *)
(***************************************************************************)
P_ReadOnlyMode == <<"read-only", "mode">>
P_NotAllowed == <<"not", "allowed">>
P_NotFound == <<"not", "found">>
P_Disabled == <<"disabled">>
P_NoUser == <<"no", "user">>
P_AlreadyExists == <<"already", "exists">>
P_DoesNotExist == <<"does", "not", "exist">>
P_NoDocumentToUpdate == <<"No", "document", "to", "update">>

MsgUserNotFound == <<"User", "not", "found">>
MsgUserNotFoundWithId == <<"User", "not", "found", "with", "ID", ":", Uid>>
MsgUserExists == <<"User", "with", "this", "email", "already", "exists">>
MsgFileNotFound == <<"File", "'", FilePath, "'", "not", "found">>

\* a catch branch; message <<>> stands for the caught error's own message
Branch(pats, message, type) == [pats |-> pats, message |-> message, type |-> type]

AuthBranch(pats) == Branch(pats, <<>>, ErrorType.AUTHORIZATION)

FirestoreWriteBranches ==
  <<AuthBranch({P_ReadOnlyMode}), AuthBranch({P_NotAllowed})>>

UserBranches(authPats, message) ==
  <<AuthBranch(authPats), Branch({P_NoUser, P_NotFound}, message, ErrorType.NOT_FOUND)>>

FileBranches(authPats) ==
  <<AuthBranch(authPats),
    Branch({P_DoesNotExist, P_NotFound}, MsgFileNotFound, ErrorType.NOT_FOUND)>>

Tool(op, gate, method, branches, prefix) ==
  [op |-> op, gate |-> gate, method |-> method, branches |-> branches,
   prefix |-> prefix]

ToolInfo ==
  [get_document |->
     Tool("getDocument", "collectionRead", "doc.get",
          <<Branch({P_NotFound}, <<"doc">>, ErrorType.NOT_FOUND),
            AuthBranch({P_NotAllowed})>>,
          <<"Error", "retrieving", "document">>),
   query_collection |->
     Tool("queryCollection", "collectionRead", "query.get",
          <<AuthBranch({P_NotAllowed})>>, <<"Error", "querying", "collection">>),
   add_document |->
     Tool("addDocument", "collectionWrite", "collection.add",
          FirestoreWriteBranches, <<"Error", "adding", "document">>),
   set_document |->
     Tool("setDocument", "collectionWrite", "doc.set",
          FirestoreWriteBranches, <<"Error", "setting", "document">>),
   update_document |->
     Tool("updateDocument", "collectionWrite", "doc.update",
          FirestoreWriteBranches \o
            <<Branch({P_NoDocumentToUpdate}, <<"doc">>, ErrorType.NOT_FOUND)>>,
          <<"Error", "updating", "document">>),
   delete_document |->
     Tool("deleteDocument", "collectionWrite", "doc.delete",
          FirestoreWriteBranches, <<"Error", "deleting", "document">>),
   batch_write |->
     Tool("batchWrite", "batch", "batch.commit",
          FirestoreWriteBranches, <<"Error", "executing", "batch", "write">>),
   delete_collection |->
     Tool("deleteCollection", "collectionWrite", "query.get",
          FirestoreWriteBranches, <<"Error", "deleting", "collection">>),
   list_users |->
     Tool("", "none", "auth.listUsers", <<>>, <<>>),
   get_user |->
     Tool("getUser", "authRead", "auth.getUser",
          UserBranches({P_Disabled}, MsgUserNotFound),
          <<"Error", "retrieving", "user">>),
   create_user |->
     Tool("createUser", "authWrite", "auth.createUser",
          <<AuthBranch({P_Disabled, P_ReadOnlyMode}),
            Branch({P_AlreadyExists}, MsgUserExists, ErrorType.VALIDATION)>>,
          <<"Error", "creating", "user">>),
   update_user |->
     Tool("updateUser", "authWrite", "auth.updateUser",
          UserBranches({P_Disabled, P_ReadOnlyMode}, MsgUserNotFoundWithId),
          <<"Error", "updating", "user">>),
   delete_user |->
     Tool("deleteUser", "authWrite", "auth.deleteUser",
          UserBranches({P_Disabled, P_ReadOnlyMode}, MsgUserNotFoundWithId),
          <<"Error", "deleting", "user">>),
   set_custom_claims |->
     Tool("setCustomClaims", "authWrite", "auth.setCustomUserClaims",
          UserBranches({P_Disabled, P_ReadOnlyMode}, MsgUserNotFoundWithId),
          <<"Error", "setting", "custom", "claims">>),
   list_files |->
     Tool("listFiles", "storageRead", "bucket.getFiles",
          <<AuthBranch({P_Disabled})>>, <<"Error", "listing", "files">>),
   get_file_metadata |->
     Tool("getFileMetadata", "storageRead", "file.getMetadata",
          FileBranches({P_Disabled}), <<"Error", "getting", "file", "metadata">>),
   get_download_url |->
     Tool("getDownloadUrl", "storageRead", "file.getSignedUrl(read)",
          FileBranches({P_Disabled}), <<"Error", "generating", "download", "URL">>),
   get_upload_url |->
     Tool("getUploadUrl", "storageWrite", "file.getSignedUrl(write)",
          <<AuthBranch({P_Disabled, P_ReadOnlyMode})>>,
          <<"Error", "generating", "upload", "URL">>),
   delete_file |->
     Tool("deleteFile", "storageWrite", "file.delete",
          FileBranches({P_Disabled, P_ReadOnlyMode}),
          <<"Error", "deleting", "file">>)]

HandlerTools == DOMAIN ToolInfo

FirestoreTools ==
  {"get_document", "query_collection", "add_document", "set_document",
   "update_document", "delete_document", "batch_write", "delete_collection"}
AuthTools ==
  {"list_users", "get_user", "create_user", "update_user", "delete_user",
   "set_custom_claims"}
StorageTools ==
  {"list_files", "get_file_metadata", "get_download_url", "get_upload_url",
   "delete_file"}

\* the tools whose service method changes platform state
WriteTools ==
  {t \in HandlerTools :
     ToolInfo[t].gate \in {"collectionWrite", "batch", "authWrite", "storageWrite"}}

(***************************************************************************)
(* Handler invocations.  An invocation runs synchronously up to its first  *)
(* await of a collaborator method, is suspended while the collaborator     *)
(* works, and runs to its return (or throw) when the collaborator settles. *)
(***************************************************************************)
\* the ceiling validateBatchOperations puts on a batch
MaxBatchOperations == 500

MaxBatchSize == 2
MaxDeleted == 3

\* arguments of a call: collection, batch operations, whether the caller
\* has the admin role, batchSize
NoArgs == [coll |-> "", ops |-> <<>>, admin |-> FALSE, batchSize |-> 0]

\* batch operations: a set with data, an update without data, a delete
OpSet == [type |-> "set", collection |-> "users", hasData |-> TRUE]
OpUpdateNoData == [type |-> "update", collection |-> "users", hasData |-> FALSE]
OpDelete == [type |-> "delete", collection |-> "posts", hasData |-> FALSE]

\* the last: one operation more than validateBatchOperations allows
OpsLists ==
  {<<>>, <<OpSet>>, <<OpDelete>>, <<OpUpdateNoData>>, <<OpSet, OpDelete>>,
   <<OpDelete, OpSet>>, <<OpSet, OpUpdateNoData>>, <<OpSet, OpSet, OpDelete>>,
   [i \in 1..(MaxBatchOperations + 1) |-> OpSet]}

ArgsFor(tool) ==
  CASE tool = "batch_write" -> {[NoArgs EXCEPT !.ops = o] : o \in OpsLists}
    [] tool = "delete_collection" ->
         {[NoArgs EXCEPT !.coll = c, !.batchSize = b] :
            c \in Collections, b \in 1..MaxBatchSize}
    [] tool \in FirestoreTools -> {[NoArgs EXCEPT !.coll = c] : c \in Collections}
    [] tool = "list_users" -> {[NoArgs EXCEPT !.admin = b] : b \in BOOLEAN}
    [] OTHER -> {NoArgs}

\* The service method of a tool, up to its first await.
ServiceStart(tool, a, pol) ==
  LET info == ToolInfo[tool]
      gated(e) == [error |-> e, calls |-> IF e = NoError THEN {info.method} ELSE {}]
  IN  CASE info.gate = "collectionRead" -> gated(checkCollectionRead(pol, a.coll))
        [] info.gate = "collectionWrite" -> gated(checkCollectionAccess(pol, a.coll))
        [] info.gate = "batch" -> batchWrite(pol, a.ops)
        [] info.gate = "authRead" -> gated(checkAuthAccess(pol))
        [] info.gate = "authWrite" -> gated(checkAuthWriteAccess(pol))
        [] info.gate = "storageRead" -> gated(checkStorageAccess(pol))
        [] info.gate = "storageWrite" -> gated(checkStorageWriteAccess(pol))
        [] OTHER -> gated(NoError)

\* The handler's catch block: the first branch one of whose substrings the
\* message holds, else the FIREBASE branch.  Each calls
\* createErrorResponse(<a string>, <an ErrorType>): the string arrives as
\* `error`, the ErrorType as `context`.
RECURSIVE FirstBranch(_, _)
FirstBranch(branches, msg) ==
  IF branches = <<>> THEN Branch({}, <<>>, "")
  ELSE IF \E pat \in branches[1].pats : Includes(msg, pat) THEN branches[1]
  ELSE FirstBranch(Tail(branches), msg)

CatchBlock(tool, a, error) ==
  LET errorMessage == getErrorMessage(error)
      b == FirstBranch(ToolInfo[tool].branches, errorMessage)
      text == IF b.message = <<>> THEN errorMessage
              ELSE IF b.message = <<"doc">> THEN MsgDocNotFound(DocId, a.coll)
              ELSE b.message
  IN  IF b.type # ""
      THEN createErrorResponse(StringValue(text), <<b.type>>)
      ELSE createErrorResponse(StringValue(Colon(ToolInfo[tool].prefix, errorMessage)),
                               <<ErrorType.FIREBASE>>)

\* the context given to withErrorHandling
HandlerContext(tool) ==
  IF tool = "list_users" THEN <<"Error", "listing", "users">> ELSE <<>>

\* How a collaborator call settles: it resolves, it resolves with nothing
\* there or rejects because nothing is there, or it rejects for lack of
\* permission.
Results == {"ok", "missing", "denied"}

CollabError(tool, r) ==
  IF r = "denied"
  THEN PlainError(<<"7", "PERMISSION_DENIED", ":", "Missing", "or", "insufficient",
                    "permission", "s", ".">>)
  ELSE IF tool \in FirestoreTools
  THEN PlainError(<<"5", "NOT_FOUND", ":", "No", "document", "to", "update", ":", DocId>>)
  ELSE IF tool \in AuthTools
  THEN PlainError(<<"There", "is", "no", "user", "record", "corresponding", "to",
                    "the", "provided", "identifier", ".">>)
  ELSE PlainError(<<"No", "such", "object", ":", FilePath>>)

\* what the service method throws when its collaborator call settled as r
ServiceError(tool, a, r) ==
  IF tool = "get_document" /\ r = "missing"
  THEN PlainError(MsgDocNotFound(DocId, a.coll))
  ELSE CollabError(tool, r)

Num(n) == IF n = 0 THEN "0" ELSE IF n = 1 THEN "1" ELSE IF n = 2 THEN "2" ELSE "n"

\* the data the handler hands to createSuccessResponse
SuccessData(tool, a, total) ==
  CASE tool = "add_document" ->
         ObjectData(<< <<"message", <<"Document", "successfully", "added", "to",
                                      "collection", "'", a.coll, "'">> >>,
                       <<"documentId", <<DocId>> >> >>)
    [] tool = "set_document" ->
         StringData(<<"Document", "'", DocId, "'", "successfully", "set", "in",
                      "collection", "'", a.coll, "'">>)
    [] tool = "update_document" ->
         StringData(<<"Document", "'", DocId, "'", "successfully", "updated", "in",
                      "collection", "'", a.coll, "'">>)
    [] tool = "delete_document" ->
         StringData(<<"Document", "'", DocId, "'", "successfully", "deleted", "from",
                      "collection", "'", a.coll, "'">>)
    [] tool = "batch_write" ->
         StringData(<<"Successfully", "executed", "batch", "write", "with",
                      Num(Len(a.ops)), "operations">>)
    [] tool = "delete_collection" ->
         StringData(<<"Successfully", "deleted", Num(total), "documents", "from",
                      "collection", "'", a.coll, "'">>)
    [] tool = "delete_user" ->
         StringData(<<"User", "with", "ID", Uid, "successfully", "deleted">>)
    [] tool = "set_custom_claims" ->
         StringData(<<"Custom", "claims", "for", "user", Uid, "successfully",
                      "updated", ":", "{", "}">>)
    [] tool = "delete_file" ->
         StringData(<<"File", "'", FilePath, "'", "successfully", "deleted", "from",
                      "bucket", "'", "(default)", "'">>)
    [] tool = "create_user" ->
         ObjectData(<< <<"message", <<"User", "successfully", "created">> >>,
                       <<"user", <<Uid>> >> >>)
    [] tool = "update_user" ->
         ObjectData(<< <<"message", <<"User", Uid, "successfully", "updated">> >>,
                       <<"user", <<Uid>> >> >>)
    [] tool \in {"get_download_url", "get_upload_url"} ->
         ObjectData(<< <<"url", <<"https", ":", FilePath>> >>, <<"path", <<FilePath>> >>,
                       <<"bucket", <<"(default)">> >> >>)
    [] tool \in {"get_user", "list_users"} -> ObjectData(<< <<"uid", <<Uid>> >> >>)
    [] tool \in {"list_files", "get_file_metadata"} ->
         ObjectData(<< <<"name", <<FilePath>> >> >>)
    [] OTHER -> ObjectData(<< <<"id", <<DocId>> >> >>)

\* The handler from its first line to its first await.  allowed: what
\* check(tool) returned.  out: what it returned or threw, NoOutcome when it
\* is suspended; calls: the collaborator methods invoked; gate: the verdict
\* of the service's security checks; trace: the stages run, in order.
HandlerSync(tool, a, pol, allowed) ==
  LET svc == ServiceStart(tool, a, pol)
  IN  IF tool = "list_users"
      THEN IF ~allowed
           THEN [out |-> Thrown(McpError(ErrorType.RATE_LIMIT, MsgTooManyListUsers)),
                 calls |-> {}, gate |-> "none", trace |-> <<"rate">>]
           ELSE IF ~a.admin
           THEN [out |-> Thrown(McpError(ErrorType.AUTHORIZATION, MsgOnlyAdmin)),
                 calls |-> {}, gate |-> "none", trace |-> <<"rate", "role">>]
           ELSE [out |-> NoOutcome, calls |-> {"auth.listUsers"}, gate |-> "none",
                 trace |-> <<"rate", "role", "call">>]
      ELSE IF ~allowed
      THEN [out |-> Returned(createErrorResponse(StringValue(MsgRateLimit(tool)),
                                                 <<ErrorType.RATE_LIMIT>>)),
            calls |-> {}, gate |-> "none", trace |-> <<"rate">>]
      ELSE IF svc.error # NoError
      THEN [out |-> Returned(CatchBlock(tool, a, svc.error)), calls |-> svc.calls,
            gate |-> IF Includes(svc.error.message, <<"Data", "is", "required">>)
                     THEN "invalid" ELSE "rejected",
            trace |-> <<"rate", "policy">>]
      ELSE [out |-> NoOutcome, calls |-> svc.calls, gate |-> "passed",
            trace |-> <<"rate", "policy", "call">>]

\* The handler from the settling of its collaborator call to its end.
HandlerResume(tool, a, r, total) ==
  IF r = "ok" THEN Returned(createSuccessResponse(SuccessData(tool, a, total)))
  ELSE IF tool = "list_users" THEN Thrown(CollabError(tool, r))
  ELSE Returned(CatchBlock(tool, a, ServiceError(tool, a, r)))

MaxInv == 2
Slots == 1..MaxInv
MaxSessionTicks == 2

\* Each service reads its own fields of securityConfig only: the Firestore
\* service readOnly and allowedCollections, the Auth service disableAuth
\* and readOnly, the Storage service disableStorage and readOnly.  The
\* fields the session's service never reads are left unset.
PoliciesFor(tool) ==
  {pol \in Policies :
     /\ tool \notin FirestoreTools => ~pol.allowedCollections.present
     /\ tool \notin AuthTools => ~pol.disableAuth
     /\ tool \notin StorageTools => ~pol.disableStorage}

SessionTick ==
  /\ now < Granule * MaxSessionTicks
  /\ Tick
  /\ UNCHANGED pipeVars

\* the tools run concurrently: one that returns envelopes and the one that
\* throws
ConcTools == {"get_document", "list_users"}

IdleInv ==
  [pc |-> "idle", args |-> NoArgs, phase |-> "", size |-> 0, total |-> 0,
   calls |-> {}, gate |-> "none", trace |-> <<>>, rlChanged |-> FALSE,
   win |-> -1, settled |-> "", out |-> NoOutcome]

\* A client calls the session's tool: the handler runs to its first await.
Start(i) ==
  /\ inv[i].pc \in {"idle", "done"}
  /\ \E d \in Skews, a \in ArgsFor(session) :
       /\ CanCheck(session, d)
       /\ \E r \in {check(requests, session, now, now + d, config)} :
          \E h \in {HandlerSync(session, a, policy, r.ret)} :
            /\ CheckCall(session, d, r)
            /\ inv' = [inv EXCEPT ![i] =
                [IdleInv EXCEPT
                   !.pc = IF h.out = NoOutcome THEN "awaiting" ELSE "done",
                   !.args = a,
                   !.phase = IF h.out # NoOutcome THEN ""
                             ELSE IF session = "delete_collection" THEN "query"
                             ELSE "call",
                   !.calls = h.calls, !.gate = h.gate, !.trace = h.trace,
                   !.rlChanged = (r.requests # requests),
                   !.win = IF WindowIsOpen(session, now) THEN winOpen[session] ELSE now,
                   !.out = withErrorHandling(h.out, HandlerContext(session))]]
  /\ UNCHANGED <<config, last, policy, session, arg, res>>

\* The awaited collaborator call settles and the handler runs to its end.
Complete(i) ==
  /\ inv[i].pc = "awaiting" /\ inv[i].phase = "call"
  /\ \E r \in Results :
       inv' = [inv EXCEPT ![i].pc = "done", ![i].phase = "", ![i].settled = r,
                 ![i].out = withErrorHandling(
                              HandlerResume(session, inv[i].args, r, 0),
                              HandlerContext(session))]
  /\ UNCHANGED <<rlVars, policy, session, arg, res>>

\* deleteCollection: query.limit(batchSize).get() settles.  An empty
\* snapshot ends the loop; otherwise the documents are staged on a new
\* batch and its commit is awaited.
CompleteQuery(i) ==
  /\ inv[i].pc = "awaiting" /\ inv[i].phase = "query"
  /\ \/ \E n \in 0..inv[i].args.batchSize :
          /\ inv[i].total + n <= MaxDeleted
          /\ inv' = IF n = 0
                    THEN [inv EXCEPT ![i].pc = "done", ![i].phase = "",
                            ![i].out = withErrorHandling(
                               HandlerResume(session, inv[i].args, "ok", inv[i].total),
                               HandlerContext(session))]
                    ELSE [inv EXCEPT ![i].phase = "commit", ![i].size = n,
                            ![i].calls = @ \cup {"db.batch", "batch.delete", "batch.commit"}]
     \/ \E r \in Results \ {"ok"} :
          inv' = [inv EXCEPT ![i].pc = "done", ![i].phase = "", ![i].settled = r,
                    ![i].out = withErrorHandling(
                       HandlerResume(session, inv[i].args, r, inv[i].total),
                       HandlerContext(session))]
  /\ UNCHANGED <<rlVars, policy, session, arg, res>>

\* deleteCollection: batch.commit() settles.  A full batch means another
\* round of the do-while loop.
CompleteCommit(i) ==
  /\ inv[i].pc = "awaiting" /\ inv[i].phase = "commit"
  /\ \/ LET total == inv[i].total + inv[i].size
        IN  inv' = IF inv[i].size >= inv[i].args.batchSize
                   THEN [inv EXCEPT ![i].phase = "query", ![i].total = total,
                           ![i].size = 0]
                   ELSE [inv EXCEPT ![i].pc = "done", ![i].phase = "",
                           ![i].total = total, ![i].size = 0,
                           ![i].out = withErrorHandling(
                              HandlerResume(session, inv[i].args, "ok", total),
                              HandlerContext(session))]
     \/ \E r \in Results \ {"ok"} :
          inv' = [inv EXCEPT ![i].pc = "done", ![i].phase = "", ![i].settled = r,
                    ![i].out = withErrorHandling(
                       HandlerResume(session, inv[i].args, r, inv[i].total),
                       HandlerContext(session))]
  /\ UNCHANGED <<rlVars, policy, session, arg, res>>

Init ==
  /\ now = 0
  /\ \E n \in 1..MaxRequestsBound : config = RateLimiterConfig(n, MaxWindowTicks * Granule)
  /\ requests = [k \in Keys |-> NoRecord]
  /\ winOpen = [k \in Keys |-> -1]
  /\ hits = [k \in Keys |-> 0]
  /\ admitted = [k \in Keys |-> 0]
  /\ last = NoCall
  /\ session \in HandlerTools
  /\ policy \in PoliciesFor(session)
  /\ inv = <<IdleInv>>
  /\ arg = <<>>
  /\ res = <<>>

\* One client that awaits each response before its next call, under every
\* policy and for every tool.
Next ==
  \/ SessionTick
  \/ Start(1)
  \/ Complete(1)
  \/ CompleteQuery(1)
  \/ CompleteCommit(1)

Spec == Init /\ [][Next]_vars

\* Up to MaxInv invocations of one tool in flight at once, each suspended at
\* its awaited collaborator call, under the default policy.
InitConc ==
  /\ now = 0
  /\ \E n \in 1..MaxRequestsBound : config = RateLimiterConfig(n, MaxWindowTicks * Granule)
  /\ requests = [k \in Keys |-> NoRecord]
  /\ winOpen = [k \in Keys |-> -1]
  /\ hits = [k \in Keys |-> 0]
  /\ admitted = [k \in Keys |-> 0]
  /\ last = NoCall
  /\ session \in ConcTools
  /\ policy \in {pol \in PoliciesFor(session) :
                   ~pol.readOnly /\ ~pol.disableAuth /\ ~pol.allowedCollections.present}
  /\ inv = [i \in Slots |-> IdleInv]
  /\ arg = <<>>
  /\ res = <<>>

NextConc ==
  \/ SessionTick
  \/ \E i \in Slots : Start(i)
  \/ \E i \in Slots : Complete(i)

SpecConc == InitConc /\ [][NextConc]_vars

(***************************************************************************)
(* C3.  However the invocations of one tool interleave, each suspended     *)
(* only at its awaited collaborator call, the number of them check admits  *)
(* within one window never exceeds maxRequests.                            *)
(***************************************************************************)
AdmittedIn(w) ==
  {i \in DOMAIN inv : inv[i].pc # "idle" /\ Len(inv[i].trace) > 1 /\ inv[i].win = w}

C3_ConcurrentBudget ==
  /\ admitted[session] <= config.maxRequests
  /\ \A i \in DOMAIN inv : Cardinality(AdmittedIn(inv[i].win)) <= config.maxRequests

\* the budget is used up by invocations still in flight while another one
\* is turned away
C3_Witness ==
  /\ admitted[session] = config.maxRequests
  /\ \E i, j \in DOMAIN inv :
       /\ i # j
       /\ inv[i].pc = "awaiting"
       /\ inv[j].pc = "done" /\ inv[j].trace = <<"rate">>

(***************************************************************************)
(* C4.  When the security policy rejects a request for a state-mutating    *)
(* operation, no collaborator write method is invoked for it; for          *)
(* batchWrite, wherever in the list the disallowed collection stands,      *)
(* commit is never called.                                                 *)
(***************************************************************************)
PolicyRejects(tool, a) ==
  \/ tool \in WriteTools /\ policy.readOnly
  \/ tool \in FirestoreTools \ {"batch_write"} /\ CollectionDenied(policy, a.coll)
  \/ tool = "batch_write"
       /\ \E n \in 1..Len(a.ops) : CollectionDenied(policy, a.ops[n].collection)
  \/ tool \in AuthTools /\ policy.disableAuth
  \/ tool \in StorageTools /\ policy.disableStorage

C4_RejectedNoWrite ==
  \A i \in DOMAIN inv :
    (inv[i].pc # "idle" /\ session \in WriteTools /\ PolicyRejects(session, inv[i].args))
      => inv[i].calls \cap WriteMethods = {}

\* a batch whose second operation names a disallowed collection: the first
\* was staged, commit was not called
C4_Witness ==
  \E i \in DOMAIN inv :
    /\ session = "batch_write" /\ inv[i].pc = "done" /\ ~policy.readOnly
    /\ Len(inv[i].args.ops) = 2
    /\ ~CollectionDenied(policy, inv[i].args.ops[1].collection)
    /\ CollectionDenied(policy, inv[i].args.ops[2].collection)
    /\ "batch.set" \in inv[i].calls
    /\ "batch.commit" \notin inv[i].calls

\* the invocation in slot i ended with a failure envelope of the given kind
FailedWith(i, type) ==
  /\ inv[i].pc = "done"
  /\ inv[i].out.kind = "return"
  /\ inv[i].out.env.isError
  /\ inv[i].out.env.errorType = type

(***************************************************************************)
(* C5.  Under readOnly = true every write tool fails with AUTHORIZATION,   *)
(* whatever the resource and whether or not the rate budget is used up.    *)
(***************************************************************************)
C5_ReadOnlyAuthorization ==
  \A i \in DOMAIN inv :
    (inv[i].pc = "done" /\ policy.readOnly /\ session \in WriteTools)
      => FailedWith(i, ErrorType.AUTHORIZATION)

(***************************************************************************)
(* C6.  With a non-empty allowedCollections an access to a collection      *)
(* fails with AUTHORIZATION exactly when the collection is not in the      *)
(* list; with an empty or absent list no collection is rejected.           *)
(***************************************************************************)
C6_AllowList ==
  \A i \in DOMAIN inv :
    (inv[i].pc = "done" /\ inv[i].args.coll # "" /\ ~policy.readOnly)
      => (FailedWith(i, ErrorType.AUTHORIZATION)
            <=> CollectionDenied(policy, inv[i].args.coll))

(***************************************************************************)
(* C7.  With disableAuth (disableStorage) set, every auth (storage) tool,  *)
(* list_users included, fails with AUTHORIZATION and invokes no            *)
(* collaborator method.                                                    *)
(***************************************************************************)
C7_DisabledCapability ==
  \A i \in DOMAIN inv :
    (/\ inv[i].pc # "idle"
     /\ \/ session \in AuthTools /\ policy.disableAuth
        \/ session \in StorageTools /\ policy.disableStorage)
      => /\ inv[i].calls = {}
         /\ FailedWith(i, ErrorType.AUTHORIZATION)

(***************************************************************************)
(* C8.  The security checks run before the rate limiter: a request that    *)
(* the security policy rejects leaves the RateLimiter as it was.           *)
(***************************************************************************)
C8_PolicyBeforeRateLimit ==
  \A i \in DOMAIN inv :
    (inv[i].pc # "idle" /\ PolicyRejects(session, inv[i].args))
      => /\ ~inv[i].rlChanged
         /\ inv[i].trace # <<>> /\ inv[i].trace[1] = "policy"

(***************************************************************************)
(* C9.  A request that fails argument validation is rejected before the    *)
(* rate limiter is consulted and before any collaborator call: the         *)
(* RateLimiter is as it was and no collaborator method was invoked.        *)
(***************************************************************************)
InvalidBatch(a) ==
  \E n \in 1..Len(a.ops) : a.ops[n].type \in {"set", "update"} /\ ~a.ops[n].hasData

C9_ValidationFirst ==
  \A i \in DOMAIN inv :
    (inv[i].pc # "idle" /\ session = "batch_write" /\ InvalidBatch(inv[i].args))
      => /\ ~inv[i].rlChanged
         /\ inv[i].calls = {}

(***************************************************************************)
(* C10.  Every handler invocation ends by returning an envelope: nothing   *)
(* is thrown past the wrapped handler, and every failure envelope has      *)
(* isError = true and an error kind.                                       *)
(***************************************************************************)
C10_AlwaysEnvelope ==
  \A i \in DOMAIN inv :
    inv[i].pc = "done"
      => /\ inv[i].out.kind = "return"
         /\ inv[i].out.env.isError => inv[i].out.env.errorType \in ErrorTypes

(***************************************************************************)
(* The validators (src/utils/validation.ts).  Each returns NoError, or the *)
(* error it throws.                                                        *)
(***************************************************************************)
\* validateRequiredParams(params, requiredParams): params a record of
\* values, requiredParams a sequence of [name, type]
RECURSIVE validateRequiredParams(_, _)
validateRequiredParams(params, requiredParams) ==
  IF requiredParams = <<>> THEN NoError
  ELSE LET name == requiredParams[1].name
           actualType == typeof(params[name])
       IN  IF params[name].t \in {"undefined", "null"}
           THEN InvalidArgument(<<"Missing", "required", "parameter", ":", name>>)
           ELSE IF actualType # requiredParams[1].type
           THEN InvalidArgument(<<"Invalid", "type", "for", "parameter", name, ".",
                                  "Expected", requiredParams[1].type, ",", "got",
                                  actualType>>)
           ELSE validateRequiredParams(params, Tail(requiredParams))

\* path.split('/').filter(Boolean)
Segments(path) == SelectSeq(split(path.s, "/"), LAMBDA segment : segment # <<>>)

\* the loop over the segments of a path; what: "Collection" or "Document"
RECURSIVE validateSegments(_, _)
validateSegments(segments, what) ==
  IF segments = <<>> THEN NoError
  ELSE IF trim(segments[1]) = <<>>
  THEN InvalidArgument(<<what, "path", "segments", "cannot", "be", "empty">>)
  ELSE IF IncludesSlashSlash(segments[1])
  THEN InvalidArgument(<<what, "path", "cannot", "contain", "consecutive", "slashes">>)
  ELSE validateSegments(Tail(segments), what)

validateCollectionPath(path) ==
  IF Falsy(path) \/ typeof(path) # "string"
  THEN InvalidArgument(<<"Collection", "path", "must", "be", "a", "non-empty", "string">>)
  ELSE LET segments == Segments(path)
       IN  IF Len(segments) = 0 \/ Len(segments) % 2 = 0
           THEN InvalidArgument(<<"Invalid", "collection", "path", "format", ".",
                                  "Must", "be", "in", "format", ":",
                                  "collection/doc/collection">>)
           ELSE validateSegments(segments, "Collection")

validateDocumentPath(path) ==
  IF Falsy(path) \/ typeof(path) # "string"
  THEN InvalidArgument(<<"Document", "path", "must", "be", "a", "non-empty", "string">>)
  ELSE LET segments == Segments(path)
       IN  IF Len(segments) = 0 \/ Len(segments) % 2 # 0
           THEN InvalidArgument(<<"Invalid", "document", "path", "format", ".",
                                  "Must", "be", "in", "format", ":", "collection/doc">>)
           ELSE validateSegments(segments, "Document")

\* checkValue(value, path), and its forEach over the items of an array or
\* the entries of an object: the first error thrown
RECURSIVE checkValue(_, _)
RECURSIVE checkEntries(_, _)
\* a checkValue that does not look inside arrays
checkValueNoArrays(value, path) ==
  IF value.t = "undefined"
  THEN InvalidArgument(<<"Document", "data", "cannot", "contain", "undefined",
                         "values", "(", "at">> \o join(path) \o <<")">>)
  ELSE IF value.t \in {"null", "array"} THEN NoError
  ELSE IF typeof(value) = "object" THEN checkEntries(value.fields, path)
  ELSE IF typeof(value) \notin {"string", "number", "boolean"}
  THEN InvalidArgument(<<"Unsupported", "value", "type", typeof(value), "in",
                         "document", "data", "(", "at">> \o join(path) \o <<")">>)
  ELSE NoError

checkValue(value, path) ==
  IF value.t = "undefined"
  THEN InvalidArgument(<<"Document", "data", "cannot", "contain", "undefined",
                         "values", "(", "at">> \o join(path) \o <<")">>)
  ELSE IF value.t = "null" THEN NoError
  ELSE IF value.t = "array"
  THEN checkEntries([i \in 1..Len(value.items) |-> <<toString(i - 1), value.items[i]>>],
                    path)
  ELSE IF typeof(value) = "object" THEN checkEntries(value.fields, path)
  ELSE IF typeof(value) \notin {"string", "number", "boolean"}
  THEN InvalidArgument(<<"Unsupported", "value", "type", typeof(value), "in",
                         "document", "data", "(", "at">> \o join(path) \o <<")">>)
  ELSE NoError

checkEntries(entries, path) ==
  IF entries = <<>> THEN NoError
  ELSE LET e == checkValue(entries[1][2], Append(path, entries[1][1]))
       IN  IF e # NoError THEN e ELSE checkEntries(Tail(entries), path)

validateDocumentData(data) ==
  IF Falsy(data) \/ typeof(data) # "object"
  THEN InvalidArgument(<<"Document", "data", "must", "be", "a", "non-null", "object">>)
  ELSE checkValue(data, <<>>)

\* one operation of a batch: a JavaScript object with the properties type,
\* path and data (JsUndefined where the property is missing)
BatchOperation(type, path, data) ==
  [t |-> "object", type |-> type, path |-> path, data |-> data]

\* the body of the loop of validateBatchOperations for one operation;
\* reading a property of null or undefined throws a TypeError
validateOperation(op) ==
  IF op.t \in {"undefined", "null"}
  THEN PlainError(<<"Cannot", "read", "properties", "of", op.t>>)
  ELSE IF Falsy(op.type) \/ Falsy(op.path) \/ Falsy(op.data)
  THEN InvalidArgument(<<"Each", "batch", "operation", "must", "have", "type", ",",
                         "path", ",", "and", "data", "properties">>)
  ELSE IF op.type \notin {JsString(<<"set">>), JsString(<<"update">>),
                          JsString(<<"delete">>)}
  THEN InvalidArgument(<<"Invalid", "batch", "operation", "type", ".", "Must", "be",
                         "one", "of", ":", "set", ",", "update", ",", "delete">>)
  ELSE LET e == IF op.type # JsString(<<"delete">>)
                THEN validateDocumentData(op.data) ELSE NoError
       IN  IF e # NoError THEN e ELSE validateDocumentPath(op.path)

\* the loop: the error of the first operation that has one
validateOperations(items) ==
  LET failing == {i \in 1..Len(items) : validateOperation(items[i]) # NoError}
  IN  IF failing = {} THEN NoError
      ELSE validateOperation(items[CHOOSE i \in failing : \A j \in failing : i <= j])

validateBatchOperations(operations) ==
  IF operations.t # "array"
  THEN InvalidArgument(<<"Batch", "operations", "must", "be", "an", "array">>)
  ELSE IF Len(operations.items) = 0
  THEN InvalidArgument(<<"Batch", "operations", "array", "cannot", "be", "empty">>)
  ELSE IF Len(operations.items) > MaxBatchOperations
  THEN InvalidArgument(<<"Batch", "operations", "cannot", "exceed", "500",
                         "operations">>)
  ELSE validateOperations(operations.items)

(***************************************************************************)
(* The validators called on their own, on every argument within the        *)
(* bounds.                                                                 *)
(***************************************************************************)
MaxPathLen == 4
MaxOperations == 2

\* the characters paths are made of
PathChars == {"a", "b", "/", " "}

RECURSIVE StringsUpTo(_, _)
StringsUpTo(chars, n) ==
  IF n = 0 THEN {<<>>}
  ELSE LET shorter == StringsUpTo(chars, n - 1)
       IN  shorter \cup {Append(s, c) : s \in {x \in shorter : Len(x) = n - 1},
                                         c \in chars}

PathValues ==
  {JsString(s) : s \in StringsUpTo(PathChars, MaxPathLen)}
    \cup {JsUndefined, JsNull, JsNumber(0), JsNumber(1)}

\* document data: valid, holding an undefined value, holding a function,
\* nested, an array, and values that are no object
DataValues ==
  {JsObject(<< <<<<"x">>, JsNumber(1)>> >>),
   JsObject(<< <<<<"x">>, JsUndefined>> >>),
   JsObject(<< <<<<"x">>, JsString(<<"a">>)>>, <<<<"y">>, JsFunction>> >>),
   JsObject(<< <<<<"x">>, JsArray(<<JsNull, JsObject(<< <<<<"y">>, JsUndefined>> >>)>>)>> >>),
   JsObject(<<>>),
   JsArray(<<JsBoolean(TRUE)>>),
   JsUndefined, JsNull, JsString(<<"a">>), JsNumber(0)}

OperationValues ==
  {BatchOperation(type, path, data) :
     type \in {JsString(<<"set">>), JsString(<<"update">>), JsString(<<"delete">>),
               JsString(<<"merge">>), JsUndefined},
     path \in {JsString(<<"a", "/", "b">>), JsString(<<"a">>), JsUndefined},
     data \in {JsObject(<< <<<<"x">>, JsNumber(1)>> >>),
               JsObject(<< <<<<"x">>, JsUndefined>> >>), JsUndefined}}
    \cup {JsNull}

\* arrays of up to MaxOperations operations, arrays at and just above the
\* ceiling of MaxBatchOperations, and values that are no array
BatchValues ==
  {JsArray(items) : items \in UNION {[1..n -> OperationValues] : n \in 0..MaxOperations}}
    \cup {JsArray([i \in 1..n |-> op]) :
            n \in {MaxBatchOperations, MaxBatchOperations + 1},
            op \in {BatchOperation(JsString(<<"set">>), JsString(<<"a", "/", "b">>),
                                   JsObject(<< <<<<"x">>, JsNumber(1)>> >>)),
                    BatchOperation(JsString(<<"delete">>), JsString(<<"a">>),
                                   JsUndefined)}}
    \cup {JsUndefined, JsObject(<<>>)}

\* documents: objects of up to two properties whose values are leaves,
\* arrays of up to MaxDocLen leaves and objects, nested up to three deep
MaxDocLen == 2
DocLeaves ==
  {JsString(<<"a">>), JsNumber(1), JsBoolean(TRUE), JsNull, JsUndefined, JsFunction}
DocKeys == {<<"x">>, <<"y">>}
DocInner ==
  DocLeaves
    \cup {JsArray(items) : items \in UNION {[1..n -> DocLeaves] : n \in 0..MaxDocLen}}
    \cup {JsObject(<< <<k, v>> >>) : k \in DocKeys, v \in DocLeaves}
DocMiddle ==
  DocInner
    \cup {JsArray(<<JsNumber(1), v>>) : v \in DocInner}
    \cup {JsObject(<< <<k, v>> >>) : k \in DocKeys, v \in DocInner}
DocumentValues ==
  {JsObject(<< <<k, v>> >>) : k \in DocKeys, v \in DocMiddle}
    \cup {JsObject(<< <<(<<"x">>), v>>, <<(<<"y">>), w>> >>) : v \in DocInner, w \in DocLeaves}
    \cup DataValues

Validators ==
  {"validateCollectionPath", "validateDocumentPath", "validateBatchOperations",
   "validateDocumentData"}

ValidatorArgs(fn) ==
  IF fn = "validateBatchOperations" THEN BatchValues
  ELSE IF fn = "validateDocumentData" THEN DocumentValues
  ELSE PathValues

NoResult == [cls |-> "pending", type |-> "", message |-> <<>>]

\* the variables of the request pipeline, at rest
PipelineAtRest ==
  /\ now = 0
  /\ config = RateLimiterConfig(1, Granule)
  /\ requests = [k \in Keys |-> NoRecord]
  /\ winOpen = [k \in Keys |-> -1]
  /\ hits = [k \in Keys |-> 0]
  /\ admitted = [k \in Keys |-> 0]
  /\ last = NoCall
  /\ policy = [readOnly |-> FALSE, allowedCollections |-> [present |-> FALSE, list |-> <<>>],
               disableAuth |-> FALSE, disableStorage |-> FALSE]
  /\ session = ""
  /\ inv = <<>>

InitValidate ==
  /\ PipelineAtRest
  /\ \E fn \in Validators : \E v \in ValidatorArgs(fn) : arg = [fn |-> fn, value |-> v]
  /\ res = NoResult

CallValidateCollectionPath ==
  /\ arg.fn = "validateCollectionPath" /\ res = NoResult
  /\ res' = validateCollectionPath(arg.value)
  /\ UNCHANGED <<rlVars, policy, session, inv, arg>>

CallValidateDocumentPath ==
  /\ arg.fn = "validateDocumentPath" /\ res = NoResult
  /\ res' = validateDocumentPath(arg.value)
  /\ UNCHANGED <<rlVars, policy, session, inv, arg>>

CallValidateBatchOperations ==
  /\ arg.fn = "validateBatchOperations" /\ res = NoResult
  /\ res' = validateBatchOperations(arg.value)
  /\ UNCHANGED <<rlVars, policy, session, inv, arg>>

CallValidateDocumentData ==
  /\ arg.fn = "validateDocumentData" /\ res = NoResult
  /\ res' = validateDocumentData(arg.value)
  /\ UNCHANGED <<rlVars, policy, session, inv, arg>>

NextValidate ==
  \/ CallValidateCollectionPath
  \/ CallValidateDocumentPath
  \/ CallValidateBatchOperations
  \/ CallValidateDocumentData

SpecValidate == InitValidate /\ [][NextValidate]_vars

(***************************************************************************)
(* The tool functions of src/tools/firestore-tools.ts, registered with the *)
(* server as they are.  Each validates its params, consults                *)
(* defaultRateLimiter, gets the Firestore (Storage) instance and awaits    *)
(* the collaborator; every failure leaves it as a thrown FirebaseMcpError. *)
(***************************************************************************)
ToolFunction(key, doing, prefix, call, done) ==
  [key |-> key, doing |-> doing, prefix |-> prefix, call |-> call, done |-> done]

ToolFunctionInfo ==
  [firestore_add_document |->
     ToolFunction("firestore_add", <<"adding", "documents">>,
                  <<"Error", "adding", "document">>, "setDoc",
                  <<"Document", "added", "successfully">>),
   firestore_get_document |->
     ToolFunction("firestore_get", <<"getting", "documents">>,
                  <<"Error", "getting", "document">>, "getDoc", <<>>),
   firestore_update_document |->
     ToolFunction("firestore_update", <<"updating", "documents">>,
                  <<"Error", "updating", "document">>, "updateDoc",
                  <<"Document", "updated", "successfully">>),
   firestore_delete_document |->
     ToolFunction("firestore_delete", <<"deleting", "documents">>,
                  <<"Error", "deleting", "document">>, "deleteDoc",
                  <<"Document", "deleted", "successfully">>),
   firestore_batch_operations |->
     ToolFunction("firestore_batch", <<"batch", "operations">>,
                  <<"Error", "in", "batch", "operations">>, "batch.commit",
                  <<"Batch", "operations", "completed", "successfully">>),
   storage_upload_file |->
     ToolFunction("storage_upload_file", <<"file", "uploads">>,
                  <<"Error", "uploading", "file">>, "uploadBytes",
                  <<"File", "uploaded", "successfully">>)]

ToolFunctions == DOMAIN ToolFunctionInfo

ToolKeys == {ToolFunctionInfo[f].key : f \in ToolFunctions}

\* the params of a call: the properties a function reads, JsUndefined
\* where the caller left one out
NoParams ==
  [collection |-> JsUndefined, path |-> JsUndefined, data |-> JsUndefined,
   operations |-> JsUndefined]

MsgToolRateLimit(tool) ==
  <<"Rate", "limit", "exceeded", "for">> \o ToolFunctionInfo[tool].doing
    \o <<".", "Please", "try", "again", "later", ".">>

MsgFirestoreNotAvailable ==
  <<"Firestore", "is", "not", "available", ".", "Please", "check", "your",
    "Firebase", "configuration", ".">>

MsgStorageNotAvailable ==
  <<"Firebase", "Storage", "is", "not", "available", ".", "Please", "check",
    "your", "Firebase", "configuration", ".">>

\* the catch block of a tool function
ToolCatch(tool, error) ==
  IF error.cls = "FirebaseMcpError" THEN error
  ELSE McpError(ErrorType.FIREBASE,
                Colon(ToolFunctionInfo[tool].prefix,
                      IF error.message = <<>> THEN <<"Unknown", "error">>
                      ELSE error.message))

\* the statements of a tool function that precede defaultRateLimiter.check
ToolValidate(tool, params) ==
  LET first(e1, e2) == IF e1 # NoError THEN e1 ELSE e2
  IN  CASE tool = "firestore_add_document" ->
             IF Falsy(params.collection) \/ Falsy(params.data)
             THEN McpError(ErrorType.INVALID_PARAMS,
                           <<"Missing", "required", "parameters", ".", "Required", ":",
                             "collection", ",", "data", ".">>)
             ELSE first(validateCollectionPath(params.collection),
                        validateDocumentData(params.data))
        [] tool = "firestore_update_document" ->
             first(validateDocumentPath(params.path), validateDocumentData(params.data))
        [] tool = "firestore_batch_operations" ->
             validateBatchOperations(params.operations)
        [] tool = "storage_upload_file" ->
             validateRequiredParams(params, <<[name |-> "path", type |-> "string"],
                                              [name |-> "data", type |-> "string"]>>)
        [] OTHER -> validateDocumentPath(params.path)

\* the batch methods the loop of firestore_batch_operations calls
StagedBy(operations) ==
  {IF operations.items[i].type = JsString(<<"set">>) THEN "batch.set"
   ELSE IF operations.items[i].type = JsString(<<"update">>) THEN "batch.update"
   ELSE "batch.delete" : i \in 1..Len(operations.items)}

\* A tool function from its first statement to its first await.  allowed:
\* what defaultRateLimiter.check returned (when it was called); available:
\* whether getDb() (getStorage()) returns an instance.
ToolSync(tool, params, allowed, available) ==
  LET invalid == ToolValidate(tool, params)
      info == ToolFunctionInfo[tool]
  IN  IF invalid # NoError
      THEN [out |-> Thrown(ToolCatch(tool, invalid)), calls |-> {},
            trace |-> <<"validate">>]
      ELSE IF ~allowed
      THEN [out |-> Thrown(McpError(ErrorType.RATE_LIMIT, MsgToolRateLimit(tool))),
            calls |-> {}, trace |-> <<"validate", "rate">>]
      ELSE IF ~available
      THEN [out |-> Thrown(McpError(ErrorType.FIREBASE,
                                    IF tool = "storage_upload_file"
                                    THEN MsgStorageNotAvailable
                                    ELSE MsgFirestoreNotAvailable)),
            calls |-> {}, trace |-> <<"validate", "rate", "instance">>]
      ELSE [out |-> NoOutcome,
            calls |-> IF tool = "firestore_batch_operations"
                      THEN {"writeBatch", info.call} \cup StagedBy(params.operations)
                      ELSE {info.call},
            trace |-> <<"validate", "rate", "instance", "call">>]

\* how an awaited collaborator call of a tool function settles: it
\* resolves, it resolves with a snapshot of no document (getDoc), or it
\* rejects with an Error, with or without a message
ToolResults(tool) ==
  {"ok", "denied", "failed"} \cup (IF tool = "firestore_get_document" THEN {"missing"} ELSE {})

ToolCollabError(r) ==
  IF r = "denied"
  THEN PlainError(<<"Missing", "or", "insufficient", "permission", "s", ".">>)
  ELSE PlainError(<<>>)

\* the data handed to createSuccessResponse
ToolSuccessData(tool, params) ==
  LET info == ToolFunctionInfo[tool]
  IN  CASE tool = "firestore_add_document" ->
             ObjectData(<< <<"id", <<DocId>> >>,
                           <<"path", params.collection.s \o <<"/", DocId>> >>,
                           <<"message", info.done>> >>)
        [] tool = "firestore_get_document" ->
             ObjectData(<< <<"id", <<DocId>> >>, <<"path", params.path.s>>,
                           <<"data", <<"{", "}">> >> >>)
        [] tool = "firestore_batch_operations" ->
             ObjectData(<< <<"count", toString(Len(params.operations.items))>>,
                           <<"message", info.done>> >>)
        [] tool = "storage_upload_file" ->
             ObjectData(<< <<"path", params.path.s>>,
                           <<"downloadURL", <<"https", ":">> \o params.path.s>>,
                           <<"message", info.done>> >>)
        [] OTHER ->
             ObjectData(<< <<"path", params.path.s>>, <<"message", info.done>> >>)

\* A tool function from the settling of its last awaited call to its end.
ToolResume(tool, params, r) ==
  IF r = "ok" THEN Returned(createSuccessResponse(ToolSuccessData(tool, params)))
  ELSE IF r = "missing"
  THEN Thrown(McpError(ErrorType.NOT_FOUND,
                       <<"Document", "not", "found", "at">> \o params.path.s))
  ELSE Thrown(ToolCatch(tool, ToolCollabError(r)))

\* the params the client of a session sends
DocumentPaths ==
  {JsString(<<"a", "/", "b">>), JsString(<<"a">>), JsString(<<"a", "/", "/", "b">>),
   JsUndefined}

CollectionPaths == {JsString(<<"a">>), JsString(<<"a", "/", "b">>), JsUndefined}

DocumentData ==
  {JsObject(<< <<<<"x">>, JsNumber(1)>> >>), JsObject(<< <<<<"x">>, JsUndefined>> >>),
   JsUndefined}

BatchSamples ==
  LET good == JsObject(<< <<<<"x">>, JsNumber(1)>> >>)
      path == JsString(<<"a", "/", "b">>)
      set == BatchOperation(JsString(<<"set">>), path, good)
      delete == BatchOperation(JsString(<<"delete">>), path, good)
      bare == BatchOperation(JsString(<<"delete">>), path, JsUndefined)
  IN  {JsArray(<<>>), JsArray(<<set>>), JsArray(<<set, delete>>), JsArray(<<bare>>),
       JsArray(<<set, JsNull>>), JsArray([i \in 1..(MaxBatchOperations + 1) |-> set])}

ToolParams(tool) ==
  CASE tool = "firestore_add_document" ->
         {[NoParams EXCEPT !.collection = c, !.data = d] :
            c \in CollectionPaths, d \in DocumentData}
    [] tool = "firestore_update_document" ->
         {[NoParams EXCEPT !.path = p, !.data = d] : p \in DocumentPaths, d \in DocumentData}
    [] tool = "firestore_batch_operations" ->
         {[NoParams EXCEPT !.operations = o] : o \in BatchSamples}
    [] tool = "storage_upload_file" ->
         {[NoParams EXCEPT !.path = p, !.data = d] :
            p \in {JsString(<<"f">>), JsNumber(1), JsUndefined},
            d \in {JsString(<<"d">>), JsNull}}
    [] OTHER -> {[NoParams EXCEPT !.path = p] : p \in DocumentPaths}

\* A client calls the session's tool function: it runs to its first await,
\* or to the throw that ends it.
ToolStart(i) ==
  /\ inv[i].pc \in {"idle", "done"}
  /\ \E p \in ToolParams(session) :
       IF ToolValidate(session, p) # NoError
       THEN /\ \E h \in {ToolSync(session, p, TRUE, TRUE)} :
                 inv' = [inv EXCEPT ![i] =
                           [IdleInv EXCEPT !.pc = "done", !.args = p, !.out = h.out,
                                           !.calls = h.calls, !.trace = h.trace]]
            /\ UNCHANGED rlVars
       ELSE \E d \in Skews, available \in BOOLEAN :
              LET key == ToolFunctionInfo[session].key
              IN  /\ CanCheck(key, d)
                  /\ \E r \in {check(requests, key, now, now + d, config)} :
                     \E h \in {ToolSync(session, p, r.ret, available)} :
                       /\ CheckCall(key, d, r)
                       /\ inv' = [inv EXCEPT ![i] =
                            [IdleInv EXCEPT
                               !.pc = IF h.out = NoOutcome THEN "awaiting" ELSE "done",
                               !.args = p,
                               !.phase = IF h.out = NoOutcome THEN "call" ELSE "",
                               !.calls = h.calls, !.trace = h.trace,
                               !.rlChanged = (r.requests # requests),
                               !.out = h.out]]
                  /\ UNCHANGED <<config, last>>
  /\ UNCHANGED <<policy, session, arg, res>>

\* The awaited call settles.  After uploadBytes, storage_upload_file awaits
\* getDownloadURL; every other function runs to its end.
ToolComplete(i) ==
  /\ inv[i].pc = "awaiting" /\ inv[i].phase = "call"
  /\ \E r \in ToolResults(session) :
       inv' = IF session = "storage_upload_file" /\ r = "ok"
              THEN [inv EXCEPT ![i].phase = "url", ![i].calls = @ \cup {"getDownloadURL"}]
              ELSE [inv EXCEPT ![i].pc = "done", ![i].phase = "", ![i].settled = r,
                      ![i].out = ToolResume(session, inv[i].args, r)]
  /\ UNCHANGED <<rlVars, policy, session, arg, res>>

\* getDownloadURL settles.
ToolCompleteUrl(i) ==
  /\ inv[i].pc = "awaiting" /\ inv[i].phase = "url"
  /\ \E r \in ToolResults(session) :
       inv' = [inv EXCEPT ![i].pc = "done", ![i].phase = "", ![i].settled = r,
                 ![i].out = ToolResume(session, inv[i].args, r)]
  /\ UNCHANGED <<rlVars, policy, session, arg, res>>

InitTools ==
  /\ now = 0
  /\ \E n \in 1..MaxRequestsBound : config = RateLimiterConfig(n, MaxWindowTicks * Granule)
  /\ requests = [k \in ToolKeys |-> NoRecord]
  /\ winOpen = [k \in ToolKeys |-> -1]
  /\ hits = [k \in ToolKeys |-> 0]
  /\ admitted = [k \in ToolKeys |-> 0]
  /\ last = NoCall
  /\ session \in ToolFunctions
  /\ policy = [readOnly |-> FALSE, allowedCollections |-> [present |-> FALSE, list |-> <<>>],
               disableAuth |-> FALSE, disableStorage |-> FALSE]
  /\ inv = <<IdleInv>>
  /\ arg = <<>>
  /\ res = <<>>

\* One client that awaits each response before its next call, for every
\* tool function.
NextTools ==
  \/ SessionTick
  \/ ToolStart(1)
  \/ ToolComplete(1)
  \/ ToolCompleteUrl(1)

SpecTools == InitTools /\ [][NextTools]_vars

(***************************************************************************)
(* C11.  The kind of every error envelope, and of every classified error   *)
(* a tool function raises, is one of the six taxonomy values VALIDATION,   *)
(* AUTHORIZATION, NOT_FOUND, RATE_LIMIT, ALREADY_EXISTS, INTERNAL          *)
(* (INVALID_ARGUMENT, the validators' name for a validation failure, is    *)
(* counted as VALIDATION).                                                 *)
(***************************************************************************)
Taxonomy ==
  {ErrorType.VALIDATION, ErrorType.INVALID_ARGUMENT, ErrorType.AUTHORIZATION,
   ErrorType.NOT_FOUND, ErrorType.RATE_LIMIT, ErrorType.ALREADY_EXISTS,
   ErrorType.INTERNAL}

C11_ClosedTaxonomy ==
  \A i \in DOMAIN inv :
    inv[i].pc = "done"
      => /\ (inv[i].out.kind = "return" /\ inv[i].out.env.isError)
              => inv[i].out.env.errorType \in Taxonomy
         /\ (inv[i].out.kind = "throw" /\ inv[i].out.err.cls = "FirebaseMcpError")
              => inv[i].out.err.type \in Taxonomy

(***************************************************************************)
(* The envelope helpers called on their own, on every argument within the  *)
(* bounds.                                                                 *)
(***************************************************************************)
MsgPermission ==
  <<"7", "PERMISSION_DENIED", ":", "Missing", "or", "insufficient", "permission", "s", ".">>
MsgTimeout == <<"Deadline", "exceeded">>

\* the messages errors carry: those the services throw, those of the
\* platform, one without any of the substrings, and the empty one
ErrorMessages ==
  {MsgReadOnly, MsgNotAllowed("users"), MsgDocNotFound(DocId, "users"), MsgAuthDisabled,
   MsgStorageDisabled, MsgUserExists, MsgPermission, MsgTimeout, <<>>}

\* the values handed to createErrorResponse as `error`
ErrorValues ==
  {McpError(type, message) : type \in ErrorTypes, message \in ErrorMessages}
    \cup {PlainError(message) : message \in ErrorMessages}
    \cup {StringValue(message) : message \in ErrorMessages}
    \cup {NoError}

\* the values handed as `context`: none, the empty string, a string
Contexts == {<<>>, <<"Error", "listing", "users">>}

\* the values handed to createSuccessResponse as `data`
MaxJsonLen == 2

ScalarValues ==
  {JsNull, JsBoolean(TRUE), JsBoolean(FALSE), JsNumber(0), JsNumber(-12), JsNumber(105)}
    \cup {JsString(s) : s \in {<<>>, <<"a">>, <<"a", "\"", "b">>, <<"\\", "\"">>}}

JsonKeys == {<<"a">>, <<"k", "\"">>}

\* arrays of up to MaxJsonLen items, objects of up to MaxJsonLen properties
ArraysOf(values) ==
  {JsArray(items) : items \in UNION {[1..n -> values] : n \in 0..MaxJsonLen}}
ObjectsOf(values) ==
  {JsObject(fields) :
     fields \in {f \in UNION {[1..n -> JsonKeys \X values] : n \in 0..MaxJsonLen} :
                   \A i, j \in DOMAIN f : i # j => f[i][1] # f[j][1]}}

\* a value put inside an array and inside an object, alone and followed by
\* another
NestedIn(values) ==
  {JsArray(<<v>>) : v \in values}
    \cup {JsArray(<<v, JsNull>>) : v \in values}
    \cup {JsObject(<< <<k, v>> >>) : k \in JsonKeys, v \in values}
    \cup {JsObject(<< <<(<<"a">>), v>>, <<(<<"b">>), JsNumber(7)>> >>) : v \in values}

FlatValues == ArraysOf(ScalarValues) \cup ObjectsOf(ScalarValues)

JsonValues ==
  ScalarValues \cup FlatValues \cup NestedIn(FlatValues) \cup NestedIn(NestedIn(FlatValues))

\* values JSON has no text for, alone and inside a value
NonJsonValues ==
  {JsUndefined, JsFunction, JsArray(<<JsUndefined, JsNumber(0)>>),
   JsObject(<< <<(<<"a">>), JsFunction>>, <<(<<"b">>), JsNull>> >>)}

SuccessValues == JsonValues \cup NonJsonValues

RECURSIVE IsJson(_)
IsJson(v) ==
  CASE v.t \in {"null", "boolean", "number", "string"} -> TRUE
    [] v.t = "array" -> \A i \in DOMAIN v.items : IsJson(v.items[i])
    [] v.t = "object" -> \A i \in DOMAIN v.fields : IsJson(v.fields[i][2])
    [] OTHER -> FALSE

\* what a wrapped handler does: it returns an envelope or throws a value
HandlerOutcomes ==
  {Returned(createSuccessResponse(StringData(<<"ok">>))),
   Returned(createErrorResponse(PlainError(MsgTimeout), <<>>))}
    \cup {Thrown(e) : e \in ErrorValues}

InitEnvelope ==
  /\ PipelineAtRest
  /\ \/ \E e \in ErrorValues, c \in Contexts :
          arg = [fn |-> "createErrorResponse", error |-> e, context |-> c]
     \/ \E x \in SuccessValues :
          arg = [fn |-> "createSuccessResponse", data |-> x]
     \/ \E o \in HandlerOutcomes, c \in Contexts :
          arg = [fn |-> "withErrorHandling", outcome |-> o, context |-> c]
  /\ res = NoResult

CallCreateErrorResponse ==
  /\ arg.fn = "createErrorResponse" /\ res = NoResult
  /\ res' = createErrorResponse(arg.error, arg.context)
  /\ UNCHANGED <<rlVars, policy, session, inv, arg>>

CallCreateSuccessResponse ==
  /\ arg.fn = "createSuccessResponse" /\ res = NoResult
  /\ res' = createSuccessResponse(arg.data)
  /\ UNCHANGED <<rlVars, policy, session, inv, arg>>

CallWithErrorHandling ==
  /\ arg.fn = "withErrorHandling" /\ res = NoResult
  /\ res' = withErrorHandling(arg.outcome, arg.context)
  /\ UNCHANGED <<rlVars, policy, session, inv, arg>>

NextEnvelope ==
  \/ CallCreateErrorResponse
  \/ CallCreateSuccessResponse
  \/ CallWithErrorHandling

SpecEnvelope == InitEnvelope /\ [][NextEnvelope]_vars

(***************************************************************************)
(* C12.  createErrorResponse(e, c): the envelope's kind is e's own kind    *)
(* when e is a classified error; otherwise it is not INTERNAL when e's     *)
(* message holds one of "not found", "already exists", "permission",       *)
(* "disabled", "read-only", "not allowed", and INTERNAL when it holds      *)
(* none; the text is e's message, prefixed with c when c is supplied.      *)
(***************************************************************************)
ClassifyingSubstrings ==
  {<<"not", "found">>, <<"already", "exists">>, <<"permission">>, <<"disabled">>,
   <<"read-only">>, <<"not", "allowed">>}

C12_Classification ==
  (res # NoResult /\ arg.fn = "createErrorResponse"
     /\ arg.error.cls \in {"FirebaseMcpError", "Error"})
    => /\ res.isError
       /\ arg.error.cls = "FirebaseMcpError" => res.errorType = arg.error.type
       /\ arg.error.cls = "Error"
            => (res.errorType # ErrorType.INTERNAL
                  <=> \E pat \in ClassifyingSubstrings : Includes(arg.error.message, pat))
       /\ res.text = IF arg.context # <<>> THEN Colon(arg.context, arg.error.message)
                     ELSE arg.error.message

(***************************************************************************)
(* C13.  get_document(c, d), when the collaborator reports the document    *)
(* missing, returns an envelope with isError = true, kind NOT_FOUND and a  *)
(* text that holds both d and c.                                           *)
(***************************************************************************)
C13_NotFoundEnvelope ==
  \A i \in DOMAIN inv :
    (inv[i].pc = "done" /\ session = "get_document" /\ inv[i].settled = "missing")
      => /\ FailedWith(i, ErrorType.NOT_FOUND)
         /\ Includes(inv[i].out.env.text, <<DocId>>)
         /\ Includes(inv[i].out.env.text, <<inv[i].args.coll>>)

(***************************************************************************)
(* C14.  Of the consecutive invocations of list_users (get_user) made      *)
(* within one window of a limiter with maxRequests = N, the (N+1)-th       *)
(* returns an envelope of kind RATE_LIMIT and none of the first N ends     *)
(* with a RATE_LIMIT result.                                               *)
(***************************************************************************)
RateLimitResult(i) ==
  \/ inv[i].out.kind = "return" /\ inv[i].out.env.errorType = ErrorType.RATE_LIMIT
  \/ inv[i].out.kind = "throw" /\ inv[i].out.err.type = ErrorType.RATE_LIMIT

C14_RateLimitEnvelope ==
  \A i \in DOMAIN inv :
    (inv[i].pc = "done" /\ session \in {"list_users", "get_user"})
      => /\ hits[session] = config.maxRequests + 1 => FailedWith(i, ErrorType.RATE_LIMIT)
         /\ hits[session] <= config.maxRequests => ~RateLimitResult(i)

(***************************************************************************)
(* C15.  batch_write with more than 500 operations returns an envelope of  *)
(* kind VALIDATION, and no collaborator method (batch creation, staging,   *)
(* commit) is invoked for the request.                                     *)
(***************************************************************************)
C15_BatchCeiling ==
  \A i \in DOMAIN inv :
    (inv[i].pc # "idle" /\ session = "batch_write"
       /\ Len(inv[i].args.ops) > MaxBatchOperations)
      => /\ inv[i].calls = {}
         /\ inv[i].pc = "done"
         /\ FailedWith(i, ErrorType.VALIDATION)

(***************************************************************************)
(* C16.  After reset(key), whatever check and reset calls came before,     *)
(* getStatus(key) returns null, a second reset(key) changes nothing, and   *)
(* the next check(key) is admitted as the first request of a new window,   *)
(* with count 1.                                                           *)
(***************************************************************************)
C16_ResetClears ==
  \A k \in RLKeys :
    winOpen[k] = -1
      => /\ getStatus(requests, k, now) = NoRecord
         /\ reset(requests, k) = requests
         /\ \A d \in Skews :
              LET r == check(requests, k, now, now + d, config)
              IN  r.ret /\ r.requests[k] = [count |-> 1, resetTime |-> now + config.windowMs]

\* a key whose calls were being rejected has just been reset
C16_Witness ==
  /\ last.op = "reset"
  /\ last.n > config.maxRequests
  /\ winOpen[last.key] = -1
  /\ requests[last.key] = NoRecord


\* ---------------------------------------------------------------------------
\* C17: createSuccessResponse(x) answers one text entry that is not an error;
\* for a string the text is the string unchanged, and for every other JSON
\* value parsing the text gives back a value equal to x.
C17_RoundTrip ==
  (arg.fn = "createSuccessResponse" /\ res # NoResult)
    => /\ res.isError = FALSE
       /\ typeof(arg.data) = "string" => res.text = arg.data.s
       /\ (IsJson(arg.data) /\ typeof(arg.data) # "string")
            => JSONparse(res.text) = arg.data

C17_Witness ==
  /\ arg.fn = "createSuccessResponse"
  /\ arg.data = JsArray(<<JsObject(<< <<(<<"k", "\"">>),
                                        JsArray(<<JsString(<<"\\", "\"">>), JsNumber(-12)>>)>> >>),
                          JsNull>>)
  /\ res # NoResult
  /\ JSONparse(res.text) = arg.data


\* ---------------------------------------------------------------------------
\* Configuration (the config module: defaultConfig, parseArgs, loadEnvConfig,
\* loadFileConfig, getConfig).  An object is a JsObject, a key a one-word
\* string; an option name, an environment value and a collection name are
\* strings of words and characters.

\* key in obj, obj[key], obj[key] = value
Has(obj, key) == \E i \in DOMAIN obj.fields : obj.fields[i][1] = key
Get(obj, key) ==
  IF Has(obj, key)
  THEN obj.fields[CHOOSE i \in DOMAIN obj.fields : obj.fields[i][1] = key][2]
  ELSE JsUndefined
Set(obj, key, value) ==
  IF Has(obj, key)
  THEN JsObject([i \in DOMAIN obj.fields |->
                   IF obj.fields[i][1] = key THEN <<key, value>> ELSE obj.fields[i]])
  ELSE JsObject(Append(obj.fields, <<key, value>>))

\* {...target, ...source}: every own property of source is assigned in
\* order; a source that is not an object (null, undefined, a number or a
\* boolean) has none
RECURSIVE AssignAll(_, _)
AssignAll(target, fields) ==
  IF fields = <<>> THEN target
  ELSE AssignAll(Set(target, fields[1][1], fields[1][2]), Tail(fields))
Spread(target, source) ==
  IF source.t = "object" THEN AssignAll(target, source.fields) ELSE target

\* a || {}
OrEmpty(a) == IF Falsy(a) THEN JsObject(<<>>) ELSE a

\* s.toLowerCase(), over the letters the values are written with
LowerCase(c) ==
  CASE c = "T" -> "t" [] c = "R" -> "r" [] c = "U" -> "u" [] c = "E" -> "e"
    [] OTHER -> c
toLowerCase(s) == [i \in DOMAIN s |-> LowerCase(s[i])]

\* parseInt(s, 10): the leading digits of s, NaN when there is none
JsNaN == [t |-> "number", nan |-> TRUE]
parseInt(s) ==
  LET neg == s # <<>> /\ Head(s) = "-"
      body == IF neg THEN Tail(s) ELSE s
  IN  IF body = <<>> \/ ~IsDigit(Head(body)) THEN JsNaN
      ELSE LET n == parseDigits(body, 0).value
           IN  JsNumber(IF neg THEN -n ELSE n)

\* s.split(',') as an array of strings
splitArray(s, sep) ==
  LET parts == split(s, sep) IN JsArray([i \in DOMAIN parts |-> JsString(parts[i])])

\* s.startsWith(prefix)
startsWith(s, prefix) ==
  Len(s) >= Len(prefix) /\ SubSeq(s, 1, Len(prefix)) = prefix

\* defaultConfig
Key(word) == <<word>>
defaultConfig ==
  JsObject(<< <<Key("transport"), JsString(<<"stdio">>)>>,
              <<Key("port"), JsNumber(3000)>>,
              <<Key("security"),
                JsObject(<< <<Key("readOnly"), JsBoolean(FALSE)>>,
                            <<Key("disableAuth"), JsBoolean(FALSE)>>,
                            <<Key("disableStorage"), JsBoolean(FALSE)>>,
                            <<Key("rateLimitWindowMs"), JsNumber(60000)>>,
                            <<Key("rateLimitMaxRequests"), JsNumber(100)>>,
                            <<Key("logLevel"), JsString(<<"info">>)>> >>)>> >>)

\* config.security[key] = value
SetSecurity(cfg, key, value) ==
  Set(cfg, Key("security"), Set(Get(cfg, Key("security")), key, value))

\* the options of parseArgs that take a value, in the order they are
\* tested, each with the property it sets
ValueOptions ==
  << <<"--credentials", "credentialsPath">>, <<"--project", "projectId">>,
     <<"--database-url", "databaseURL">>, <<"--transport", "transport">>,
     <<"--port", "port">>, <<"--allowed-collections", "allowedCollections">> >>

\* the options that take none and set a security property to true
FlagOptions ==
  << <<"--read-only", "readOnly">>, <<"--disable-auth", "disableAuth">>,
     <<"--disable-storage", "disableStorage">> >>

\* the assignment an option makes with the text of its value
AssignOption(cfg, property, text) ==
  CASE property = "port" -> Set(cfg, Key(property), parseInt(text))
    [] property = "allowedCollections" ->
         SetSecurity(cfg, Key(property), splitArray(text, ","))
    [] OTHER -> Set(cfg, Key(property), JsString(text))

\* args[i].split('=')[1]
AfterEquals(a) == split(a, "=")[2]

\* parseArgs(args): the loop from index i on
RECURSIVE parseArgsFrom(_, _, _)
parseArgsFrom(args, i, cfg) ==
  IF i > Len(args) THEN cfg
  ELSE LET a == args[i]
           spaced == {o \in DOMAIN ValueOptions :
                        a = <<ValueOptions[o][1]>> /\ i + 1 <= Len(args)}
           joined == {o \in DOMAIN ValueOptions :
                        startsWith(a, <<ValueOptions[o][1], "=">>)}
           flags == {o \in DOMAIN FlagOptions : a = <<FlagOptions[o][1]>>}
       IN  IF spaced # {}
           THEN LET o == CHOOSE x \in spaced : TRUE
                IN  parseArgsFrom(args, i + 2,
                                  AssignOption(cfg, ValueOptions[o][2], args[i + 1]))
           ELSE IF joined # {}
           THEN LET o == CHOOSE x \in joined : TRUE
                IN  parseArgsFrom(args, i + 1,
                                  AssignOption(cfg, ValueOptions[o][2], AfterEquals(a)))
           ELSE IF flags # {}
           THEN LET o == CHOOSE x \in flags : TRUE
                IN  parseArgsFrom(args, i + 1,
                                  SetSecurity(cfg, Key(FlagOptions[o][2]), JsBoolean(TRUE)))
           ELSE parseArgsFrom(args, i + 1, cfg)

EmptyConfig == JsObject(<< <<Key("security"), JsObject(<<>>)>> >>)
parseArgs(args) == parseArgsFrom(args, 1, EmptyConfig)


\* the variables loadEnvConfig reads, in the order it reads them, each with
\* the property it sets, whether the property is one of security, and how
\* the text is converted
EnvSettings ==
  << <<"GOOGLE_APPLICATION_CREDENTIALS", "credentialsPath", FALSE, "string">>,
     <<"FIREBASE_PROJECT_ID", "projectId", FALSE, "string">>,
     <<"FIREBASE_DATABASE_URL", "databaseURL", FALSE, "string">>,
     <<"TRANSPORT_TYPE", "transport", FALSE, "string">>,
     <<"PORT", "port", FALSE, "int">>,
     <<"READ_ONLY", "readOnly", TRUE, "bool">>,
     <<"ALLOWED_COLLECTIONS", "allowedCollections", TRUE, "list">>,
     <<"DISABLE_AUTH", "disableAuth", TRUE, "bool">>,
     <<"DISABLE_STORAGE", "disableStorage", TRUE, "bool">>,
     <<"RATE_LIMIT_WINDOW_MS", "rateLimitWindowMs", TRUE, "int">>,
     <<"RATE_LIMIT_MAX_REQUESTS", "rateLimitMaxRequests", TRUE, "int">>,
     <<"LOG_LEVEL", "logLevel", TRUE, "string">> >>

EnvVars == {EnvSettings[i][1] : i \in DOMAIN EnvSettings}

ConvertEnv(text, how) ==
  CASE how = "int" -> parseInt(text)
    [] how = "bool" -> JsBoolean(toLowerCase(text) = <<"t", "r", "u", "e">>)
    [] how = "list" -> splitArray(text, ",")
    [] OTHER -> JsString(text)

\* loadEnvConfig(), process.env given as env: the settings from index i on
RECURSIVE loadEnvFrom(_, _, _)
loadEnvFrom(env, i, cfg) ==
  IF i > Len(EnvSettings) THEN cfg
  ELSE LET setting == EnvSettings[i]
           v == env[setting[1]]
       IN  IF Falsy(v) THEN loadEnvFrom(env, i + 1, cfg)
           ELSE LET value == ConvertEnv(v.s, setting[4])
                IN  loadEnvFrom(env, i + 1,
                                IF setting[3] THEN SetSecurity(cfg, Key(setting[2]), value)
                                ELSE Set(cfg, Key(setting[2]), value))

loadEnvConfig(env) == loadEnvFrom(env, 1, EmptyConfig)

\* fileConfig.security: reading a property of null throws a TypeError
MsgCannotRead == <<"Cannot", "read", "properties", "of", "null">>
SecurityOf(layer) == IF layer.t = "object" THEN Get(layer, Key("security")) ELSE JsUndefined

\* a getConfig whose security is the one of the highest layer that has any
getConfigShallow(args, env, fileConfig) ==
  Spread(Spread(Spread(Spread(JsObject(<<>>), defaultConfig), fileConfig),
                loadEnvConfig(env)), parseArgs(args))

\* getConfig(args), process.env given as env and what loadFileConfig
\* returned as fileConfig
getConfig(args, env, fileConfig) ==
  IF fileConfig.t = "null" THEN PlainError(MsgCannotRead)
  ELSE LET envConfig == loadEnvConfig(env)
           argsConfig == parseArgs(args)
           top == Spread(Spread(Spread(Spread(JsObject(<<>>), defaultConfig), fileConfig),
                                envConfig), argsConfig)
           security ==
             Spread(Spread(Spread(Spread(JsObject(<<>>), SecurityOf(defaultConfig)),
                                  OrEmpty(SecurityOf(fileConfig))),
                           OrEmpty(SecurityOf(envConfig))),
                    OrEmpty(SecurityOf(argsConfig)))
       IN  Set(top, Key("security"), security)


\* ---------------------------------------------------------------------------
\* getConfig as a function of the command line, the environment and the
\* configuration file.

MaxArgs == 2

\* the words of a command line
ArgSamples ==
  {<<"--read-only">>, <<"--disable-auth">>, <<"--disable-storage">>,
   <<"--allowed-collections">>, <<"users", ",", "posts">>,
   <<"--allowed-collections", "=", "logs">>, <<"--project">>}

ArgLists == UNION {[1..n -> ArgSamples] : n \in 0..MaxArgs}

\* process.env: the variables that are set, the others undefined
Env(set) ==
  [v \in EnvVars |-> IF \E p \in set : p[1] = v
                     THEN JsString((CHOOSE p \in set : p[1] = v)[2])
                     ELSE JsUndefined]

Environments ==
  {Env({}),
   Env({<<"READ_ONLY", <<"T", "r", "u", "e">> >>}),
   Env({<<"READ_ONLY", <<"f", "a", "l", "s", "e">> >>}),
   Env({<<"READ_ONLY", <<>> >>, <<"DISABLE_AUTH", <<"t", "r", "u", "e">> >>}),
   Env({<<"DISABLE_AUTH", <<"0">> >>, <<"DISABLE_STORAGE", <<"T", "R", "U", "E">> >>}),
   Env({<<"ALLOWED_COLLECTIONS", <<"users">> >>}),
   Env({<<"ALLOWED_COLLECTIONS", <<"a", ",", "b">> >>, <<"RATE_LIMIT_WINDOW_MS", <<"5", "0", "0", "0">> >>}),
   Env({<<"RATE_LIMIT_MAX_REQUESTS", <<"7">> >>, <<"LOG_LEVEL", <<"debug">> >>}),
   Env({<<"RATE_LIMIT_WINDOW_MS", <<"s", "o", "o", "n">> >>, <<"RATE_LIMIT_MAX_REQUESTS", <<"-", "1">> >>}),
   Env({<<"PORT", <<"8", "1">> >>, <<"FIREBASE_PROJECT_ID", <<"demo">> >>,
        <<"READ_ONLY", <<"t", "r", "u", "e">> >>, <<"DISABLE_STORAGE", <<"t", "r", "u", "e">> >>}),
   Env({<<"GOOGLE_APPLICATION_CREDENTIALS", <<"key.json">> >>,
        <<"FIREBASE_DATABASE_URL", <<"db">> >>, <<"TRANSPORT_TYPE", <<"sse">> >>})}

\* what loadFileConfig returns: {} for a file that is missing or unreadable,
\* else whatever JSON the file holds
FileSecurity(fields) == JsObject(<< <<Key("security"), JsObject(fields)>> >>)
FileConfigs ==
  {JsObject(<<>>),
   JsObject(<< <<Key("port"), JsNumber(8080)>> >>),
   FileSecurity(<<>>),
   FileSecurity(<< <<Key("readOnly"), JsBoolean(TRUE)>> >>),
   FileSecurity(<< <<Key("allowedCollections"), JsArray(<<JsString(<<"files">>)>>)>>,
                   <<Key("rateLimitMaxRequests"), JsNumber(3)>> >>),
   FileSecurity(<< <<Key("disableAuth"), JsBoolean(TRUE)>>,
                   <<Key("disableStorage"), JsBoolean(TRUE)>>,
                   <<Key("rateLimitWindowMs"), JsNumber(1000)>> >>),
   FileSecurity(<< <<Key("readOnly"), JsNull>> >>),
   JsObject(<< <<Key("security"), JsNull>> >>),
   JsObject(<< <<Key("security"), JsBoolean(TRUE)>> >>),
   JsNumber(5),
   JsNull}

InitConfig ==
  /\ PipelineAtRest
  /\ \E a \in ArgLists, e \in Environments, f \in FileConfigs :
       arg = [fn |-> "getConfig", args |-> a, env |-> e, file |-> f]
  /\ res = NoResult

CallGetConfig ==
  /\ arg.fn = "getConfig" /\ res = NoResult
  /\ res' = getConfig(arg.args, arg.env, arg.file)
  /\ UNCHANGED <<rlVars, policy, session, inv, arg>>

NextConfig ==
  \/ CallGetConfig

SpecConfig == InitConfig /\ [][NextConfig]_vars

\* ---------------------------------------------------------------------------
\* C18: every security field of the configuration getConfig returns has the
\* value of the highest layer that sets it, the command line before the
\* environment before the file before the defaults; a field no layer sets
\* is absent.
SecurityFields ==
  {Key(f) : f \in {"readOnly", "allowedCollections", "disableAuth", "disableStorage",
                   "rateLimitWindowMs", "rateLimitMaxRequests"}}

\* what each layer sets, highest priority first
SecurityLayers ==
  LET of(layer) == IF SecurityOf(layer).t = "object" THEN SecurityOf(layer)
                   ELSE JsObject(<<>>)
  IN  <<of(parseArgs(arg.args)), of(loadEnvConfig(arg.env)), of(arg.file), of(defaultConfig)>>

C18_LayeredPriority ==
  (arg.fn = "getConfig" /\ "t" \in DOMAIN res)
    => \E layers \in {SecurityLayers}, effective \in {Get(res, Key("security"))} :
         \A f \in SecurityFields :
           LET setting == {i \in DOMAIN layers : Has(layers[i], f)}
           IN  IF setting = {} THEN ~Has(effective, f)
               ELSE LET top == CHOOSE i \in setting : \A j \in setting : i <= j
                    IN  Has(effective, f) /\ Get(effective, f) = Get(layers[top], f)

\* the command line sets readOnly, the environment sets it to false, the
\* file sets the maximum and the collections, and the result has the
\* command line's readOnly, the file's maximum and the default disableAuth
C18_Witness ==
  /\ arg.fn = "getConfig" /\ "t" \in DOMAIN res
  /\ arg.args = << <<"--read-only">> >>
  /\ arg.env["READ_ONLY"] = JsString(<<"f", "a", "l", "s", "e">>)
  /\ arg.file = FileSecurity(<< <<Key("allowedCollections"), JsArray(<<JsString(<<"files">>)>>)>>,
                                <<Key("rateLimitMaxRequests"), JsNumber(3)>> >>)
  /\ Get(SecurityOf(res), Key("readOnly")) = JsBoolean(TRUE)
  /\ Get(SecurityOf(res), Key("rateLimitMaxRequests")) = JsNumber(3)
  /\ Get(SecurityOf(res), Key("disableAuth")) = JsBoolean(FALSE)


\* ---------------------------------------------------------------------------
\* C19: validateBatchOperations accepts a value exactly when it is an array
\* of 1 to 500 entries, each with a type among set, update and delete, a
\* valid document path and, unless it is a delete, valid document data.
BatchTypes == {JsString(<<"set">>), JsString(<<"update">>), JsString(<<"delete">>)}

ValidEntry(op) ==
  /\ op.t = "object"
  /\ op.type \in BatchTypes
  /\ validateDocumentPath(op.path) = NoError
  /\ op.type # JsString(<<"delete">>) => validateDocumentData(op.data) = NoError

C19_BatchAcceptance ==
  (arg.fn = "validateBatchOperations" /\ res # NoResult)
    => (res = NoError
          <=> /\ arg.value.t = "array"
              /\ Len(arg.value.items) \in 1..MaxBatchOperations
              /\ \A i \in DOMAIN arg.value.items : ValidEntry(arg.value.items[i]))


\* ---------------------------------------------------------------------------
\* C20: validateCollectionPath accepts a string exactly when it splits on
\* '/' into an odd number of segments none of which is empty, and
\* validateDocumentPath when into an even number; a string with an empty
\* segment is rejected with INVALID_ARGUMENT by both.  A segment of nothing
\* but spaces counts as empty here.
C20_PathShape ==
  (/\ arg.fn \in {"validateCollectionPath", "validateDocumentPath"}
   /\ res # NoResult
   /\ arg.value.t = "string")
    => LET segments == split(arg.value.s, "/")
           filled == \A i \in DOMAIN segments : trim(segments[i]) # <<>>
           odd == Len(segments) % 2 = 1
       IN  /\ res = NoError
                <=> filled /\ (IF arg.fn = "validateCollectionPath" THEN odd ELSE ~odd)
           /\ (\E i \in DOMAIN segments : segments[i] = <<>>)
                => res.cls = "FirebaseMcpError" /\ res.type = ErrorType.INVALID_ARGUMENT


\* ---------------------------------------------------------------------------
\* C21: validateDocumentData accepts a document exactly when every leaf, at
\* every depth through arrays and objects, is a string, a number, a boolean
\* or null; otherwise it fails with INVALID_ARGUMENT and the message names
\* the dotted path of an offending leaf.

\* the paths of the leaves of v that are neither string, number, boolean
\* nor null, path being the path of v
RECURSIVE OffendingPaths(_, _)
OffendingPaths(v, path) ==
  CASE v.t = "array" ->
         UNION {OffendingPaths(v.items[i], Append(path, toString(i - 1))) :
                  i \in DOMAIN v.items}
    [] v.t = "object" ->
         UNION {OffendingPaths(v.fields[i][2], Append(path, v.fields[i][1])) :
                  i \in DOMAIN v.fields}
    [] v.t \in {"string", "number", "boolean", "null"} -> {}
    [] OTHER -> {path}

C22_NoExpiredRecord ==
  last.op = "check"
    => \A k \in Keys : requests[k] # NoRecord => requests[k].resetTime > last.t

\* a check of one key has purged the record of another key, whose window
\* had run out, and has left a record of its own
C22_Witness ==
  /\ last.op = "check"
  /\ requests[last.key] # NoRecord
  /\ \E k \in RLKeys \ {last.key} :
       /\ hits[k] > 0
       /\ winOpen[k] + config.windowMs <= last.t
       /\ requests[k] = NoRecord


\* ---------------------------------------------------------------------------
\* check and checkRateLimit as functions of the record of the key, the
\* configuration and the two clock reads, in milliseconds.

MaxCount == 3

WindowSamples == {1, 999, 1000, 1001, 2500}
ElapsedSamples == {0, 1, 499, 999, 1000, 1001, 1500, 2499, 2500}

\* the limiter states a call can find: no record, or the record of a window
\* opened at `opened` and counted up to count
LimiterCalls ==
  UNION {
    {[cfg |-> RateLimiterConfig(n, w), record |-> r, t1 |-> opened + e, t2 |-> opened + e + d] :
       n \in 1..(MaxCount - 1), e \in ElapsedSamples, d \in {0, 1},
       r \in {NoRecord} \cup {[count |-> c, resetTime |-> opened + w] : c \in 1..MaxCount}} :
    w \in WindowSamples, opened \in {0, 1}}

RequestsWith(record) == [k \in Keys |-> IF k = "get_document" THEN record ELSE NoRecord]

InitLimiterCall ==
  /\ PipelineAtRest
  /\ \E fn \in {"check", "checkRateLimit"}, c \in LimiterCalls :
       arg = [fn |-> fn, call |-> c]
  /\ res = NoResult

CallCheck ==
  /\ arg.fn = "check" /\ res = NoResult
  /\ res' = check(RequestsWith(arg.call.record), "get_document", arg.call.t1, arg.call.t2,
                  arg.call.cfg)
  /\ UNCHANGED <<rlVars, policy, session, inv, arg>>

CallCheckRateLimit ==
  /\ arg.fn = "checkRateLimit" /\ res = NoResult
  /\ res' = checkRateLimit(RequestsWith(arg.call.record), "get_document", arg.call.t1,
                           arg.call.t2, arg.call.cfg)
  /\ UNCHANGED <<rlVars, policy, session, inv, arg>>

NextLimiterCall ==
  \/ CallCheck
  \/ CallCheckRateLimit

SpecLimiterCall == InitLimiterCall /\ [][NextLimiterCall]_vars

\* ---------------------------------------------------------------------------
\* C24: check reports a rejection by returning false, in the cases in which
\* checkRateLimit throws the RATE_LIMIT error; the seconds that error names
\* are (resetTime - now) / 1000 rounded up, at least 1 and at most
\* windowMs / 1000 rounded up.
Rejecting(call) ==
  /\ call.record # NoRecord
  /\ call.t1 < call.record.resetTime
  /\ call.record.count >= call.cfg.maxRequests

C24_WaitEstimate ==
  /\ (arg.fn = "check" /\ res # NoResult) => (res.ret <=> ~Rejecting(arg.call))
  /\ (arg.fn = "checkRateLimit" /\ res # NoResult)
       => /\ res.threw <=> Rejecting(arg.call)
          /\ res.threw
               => LET left == arg.call.record.resetTime - arg.call.t1
                  IN  /\ res.wait * MsPerSecond >= left
                      /\ (res.wait - 1) * MsPerSecond < left
                      /\ res.wait >= 1
                      /\ (res.wait - 1) * MsPerSecond < arg.call.cfg.windowMs

\* a rejection 1499 ms before the end of a window of 2500 ms names 2 seconds
C24_Witness ==
  /\ arg.fn = "checkRateLimit" /\ res # NoResult
  /\ res.threw
  /\ arg.call.cfg.windowMs = 2500
  /\ arg.call.record.resetTime - arg.call.t1 = 1499
  /\ res.wait = 2


IsCheckOf(k) ==
  /\ last'.op = "check" /\ last'.key = k
  /\ hits'[k] # hits[k] \/ winOpen'[k] # winOpen[k]

C25_FixedWindow ==
  [][\A k \in RLKeys :
       (IsCheckOf(k) /\ requests[k] # NoRecord)
         => /\ (now < requests[k].resetTime /\ requests'[k] # NoRecord)
                 => requests'[k].resetTime = requests[k].resetTime
            /\ now >= requests[k].resetTime => last'.ret]_vars

\* a key rejected twice in its window has been admitted by the first check
\* made once the window had ended
C25_Witness ==
  /\ last.op = "check"
  /\ last.opened /\ last.ret
  /\ last.prev >= config.maxRequests + 2
  /\ last.t >= Granule


\* ---------------------------------------------------------------------------
\* C28: a check, reset or getStatus of one key leaves the record of every
\* other key as it was, except that a check removes the records that have
\* expired by the time of its cleanup; getStatus changes no record.
C28_OtherKeysUntouched ==
  [][/\ \A k \in Keys \ {last'.key} :
          \/ requests'[k] = requests[k]
          \/ /\ IsCheckOf(last'.key)
             /\ requests[k] # NoRecord /\ requests[k].resetTime <= now'
             /\ requests'[k] = NoRecord
     /\ last'.op = "getStatus" => requests' = requests]_vars

\* one key has just been rejected while the other holds an unexpired record
\* with budget left
C28_Witness ==
  /\ last.op = "check" /\ ~last.ret
  /\ \E k \in RLKeys \ {last.key} :
       /\ requests[k] # NoRecord
       /\ requests[k].resetTime > now
       /\ requests[k].count < config.maxRequests


\* ---------------------------------------------------------------------------
\* FirestoreServiceImpl.deleteCollection on a collection of arg.docs
\* documents.  res holds where the call stands: the documents the collection
\* holds now, the size of the last snapshot, numDeleted and totalDeleted, the
\* queries made, and at the end what was returned or thrown.

MaxDocs == 5
MaxWrites == 2

\* a loop that goes on while the last batch deleted anything
LoopAgainWhileAny(numDeleted, batchSize) == numDeleted > 0

\* while (numDeleted >= batchSize)
LoopAgain(numDeleted, batchSize) == numDeleted >= batchSize

\* Math.min
Min(a, b) == IF a < b THEN a ELSE b

DeleteCalls ==
  [fn : {"deleteCollection"}, collection : Collections, batchSize : 1..MaxBatchSize,
   docs : 0..MaxDocs, writers : BOOLEAN, policy : Policies]

InitDelete ==
  /\ PipelineAtRest
  /\ arg \in DeleteCalls
  /\ res = NoResult

Deleting(pc) ==
  [pc |-> pc, docs |-> arg.docs, size |-> 0, numDeleted |-> 0, totalDeleted |-> 0,
   queries |-> 0, written |-> 0, returned |-> -1, threw |-> NoError]

\* the call runs to its first await: the gate, then query.limit(size).get()
DeleteStart ==
  /\ arg.fn = "deleteCollection" /\ res = NoResult
  /\ \E e \in {checkCollectionAccess(arg.policy, arg.collection)} :
       res' = IF e # NoError THEN [Deleting("done") EXCEPT !.threw = e]
              ELSE Deleting("query")
  /\ UNCHANGED <<rlVars, policy, session, inv, arg>>

\* the end of one round of the do-while loop that deleted n documents
AfterBatch(r, n) ==
  LET total == r.totalDeleted + n
  IN  IF LoopAgain(n, arg.batchSize)
      THEN [r EXCEPT !.pc = "query", !.numDeleted = n, !.totalDeleted = total]
      ELSE [r EXCEPT !.pc = "done", !.numDeleted = n, !.totalDeleted = total,
                     !.returned = total]

\* query.limit(size).get() settles: with the first `size` documents of the
\* collection, or with an error
DeleteQuerySettles ==
  /\ res # NoResult /\ res.pc = "query"
  /\ \/ LET size == Min(arg.batchSize, res.docs)
            r == [res EXCEPT !.queries = @ + 1, !.size = size]
        IN  res' = IF size = 0 THEN AfterBatch(r, 0) ELSE [r EXCEPT !.pc = "commit"]
     \/ res' = [res EXCEPT !.queries = @ + 1, !.pc = "done",
                           !.threw = PlainError(MsgTimeout)]
  /\ UNCHANGED <<rlVars, policy, session, inv, arg>>

\* batch.commit() settles: the documents of the snapshot are gone, or the
\* commit failed and none is
DeleteCommitSettles ==
  /\ res # NoResult /\ res.pc = "commit"
  /\ \/ res' = AfterBatch([res EXCEPT !.docs = @ - res.size], res.size)
     \/ res' = [res EXCEPT !.pc = "done", !.threw = PlainError(MsgTimeout)]
  /\ UNCHANGED <<rlVars, policy, session, inv, arg>>

\* another client adds a document to the collection while the call runs
ConcurrentWrite ==
  /\ res # NoResult /\ res.pc \in {"query", "commit"}
  /\ arg.writers /\ res.written < MaxWrites
  /\ res' = [res EXCEPT !.docs = @ + 1, !.written = @ + 1]
  /\ UNCHANGED <<rlVars, policy, session, inv, arg>>

NextDelete ==
  \/ DeleteStart
  \/ DeleteQuerySettles
  \/ DeleteCommitSettles
  \/ ConcurrentWrite

\* every awaited promise settles
SpecDelete ==
  /\ InitDelete /\ [][NextDelete]_vars
  /\ WF_vars(DeleteStart) /\ WF_vars(DeleteQuerySettles) /\ WF_vars(DeleteCommitSettles)

\* ---------------------------------------------------------------------------
\* C26: deleteCollection makes no further query once a query has returned
\* fewer than batchSize documents; without concurrent writers it makes at
\* most floor(n / batchSize) + 1 queries on a collection of n documents and,
\* when it returns, returns n and has left the collection empty; when the
\* gate rejects the call nothing is queried or deleted; and without
\* concurrent writers it comes to an end.
C26_Safe ==
  (arg.fn = "deleteCollection" /\ res # NoResult)
    => /\ (res.pc = "query" /\ res.queries > 0) => res.size >= arg.batchSize
       /\ ~arg.writers
            => /\ res.queries <= (arg.docs \div arg.batchSize) + 1
               /\ res.returned # -1 => res.returned = arg.docs /\ res.docs = 0
       /\ checkCollectionAccess(arg.policy, arg.collection) # NoError
            => /\ res.pc = "done" /\ res.threw # NoError
               /\ res.queries = 0 /\ res.docs = arg.docs

C26_Terminates ==
  /\ []C26_Safe
  /\ (arg.fn = "deleteCollection" /\ ~arg.writers)
       => <>(res # NoResult /\ res.pc = "done")

\* five documents deleted in batches of two: three queries, five returned
C26_Witness ==
  /\ arg.fn = "deleteCollection" /\ ~arg.writers
  /\ arg.docs = 5 /\ arg.batchSize = 2
  /\ res # NoResult
  /\ res.pc = "done" /\ res.returned = 5 /\ res.queries = 3 /\ res.docs = 0


\* ---------------------------------------------------------------------------
\* The cached user functions (getUser, updateUser, deleteUser and the
\* node-cache they share).  res holds the collaborator's user records (the
\* version of each user's record, 0 for no such user), the cache (for each
\* key the version cached and the second it expires at, or NoEntry), the
\* clock in seconds and what the last call returned; arg is the last call.

StdTTL == 600
MaxCacheTicks == 3
MaxVersion == 3

Uids == {"u1", "u2"}
NoEntry == [version |-> 0, expires |-> 0]

\* cache.get(key): the value, or undefined (NoEntry) once its time has passed
cacheGet(cache, key, clock) ==
  IF cache[key] # NoEntry /\ clock <= cache[key].expires THEN cache[key] ELSE NoEntry

\* cache.set(key, value) with the standard time to live
cacheSet(cache, key, version, clock) ==
  [cache EXCEPT ![key] = [version |-> version, expires |-> clock + StdTTL]]

UserAnswer(isError, version) == [isError |-> isError, version |-> version]

InitUsers ==
  /\ PipelineAtRest
  /\ arg = [fn |-> "none", uid |-> ""]
  /\ \E u \in [Uids -> 0..1] :
       res = [users |-> u, cache |-> [k \in Uids |-> NoEntry], clock |-> 0,
              out |-> UserAnswer(FALSE, 0)]

\* getUser({uid}): the cached value if there is one, else auth.getUser(uid),
\* whose record is cached; an unknown user is an error and nothing is cached
GetUser(uid) ==
  /\ arg' = [fn |-> "getUser", uid |-> uid]
  /\ LET cachedUser == cacheGet(res.cache, uid, res.clock)
     IN  res' = IF cachedUser # NoEntry
                THEN [res EXCEPT !.out = UserAnswer(FALSE, cachedUser.version)]
                ELSE IF res.users[uid] = 0
                THEN [res EXCEPT !.out = UserAnswer(TRUE, 0)]
                ELSE [res EXCEPT !.cache = cacheSet(@, uid, res.users[uid], res.clock),
                                 !.out = UserAnswer(FALSE, res.users[uid])]
  /\ UNCHANGED <<rlVars, policy, session, inv>>

\* updateUser({uid, ...}): auth.updateUser(uid, updateData)
UpdateUser(uid) ==
  /\ res.users[uid] < MaxVersion
  /\ arg' = [fn |-> "updateUser", uid |-> uid]
  /\ res' = IF res.users[uid] = 0 THEN [res EXCEPT !.out = UserAnswer(TRUE, 0)]
            ELSE [res EXCEPT !.users[uid] = @ + 1,
                             !.out = UserAnswer(FALSE, res.users[uid] + 1)]
  /\ UNCHANGED <<rlVars, policy, session, inv>>

\* deleteUser({uid}): auth.deleteUser(uid)
DeleteUser(uid) ==
  /\ arg' = [fn |-> "deleteUser", uid |-> uid]
  /\ res' = IF res.users[uid] = 0 THEN [res EXCEPT !.out = UserAnswer(TRUE, 0)]
            ELSE [res EXCEPT !.users[uid] = 0, !.out = UserAnswer(FALSE, 0)]
  /\ UNCHANGED <<rlVars, policy, session, inv>>

\* half the time to live passes
CacheTick ==
  /\ res.clock < MaxCacheTicks * (StdTTL \div 2)
  /\ res' = [res EXCEPT !.clock = @ + (StdTTL \div 2)]
  /\ UNCHANGED <<rlVars, policy, session, inv, arg>>

NextUsers ==
  \/ \E uid \in Uids : GetUser(uid)
  \/ \E uid \in Uids : UpdateUser(uid)
  \/ \E uid \in Uids : DeleteUser(uid)
  \/ CacheTick

SpecUsers == InitUsers /\ [][NextUsers]_vars

\* ---------------------------------------------------------------------------
\* C27: what getUser({uid}) returns is the collaborator's current record of
\* the user, and an error when there is no such user.
C27_NoStaleUser ==
  arg.fn = "getUser"
    => IF res.users[arg.uid] = 0 THEN res.out.isError
       ELSE ~res.out.isError /\ res.out.version = res.users[arg.uid]


(***************************************************************************)
(* Querying a collection: firestore_query_documents of                     *)
(* src/tools/firestore-tools.ts, with validateQueryParams, and             *)
(* FirebaseService.queryCollection.  arg is the call in hand, res its      *)
(* position, the limit constraint it put on the query it sent and what it  *)
(* returned or threw; the collection holds res.docs documents.             *)
(***************************************************************************)
MaxQueryDocs == 2

\* const effectiveLimit = limit || 50
DefaultLimit == 50

QueryKey == "firestore_query"

validOperators ==
  {<<"==">>, <<"!=">>, <<"<">>, <<"<=">>, <<">">>, <<">=">>, <<"array-contains">>,
   <<"in">>, <<"not-in">>}

\* const [a, b, c] = clause: the element, undefined past the end
ElementAt(clause, i) ==
  IF i <= Len(clause.items) THEN clause.items[i] ELSE JsUndefined

\* the first error of a loop over clauses, if any iteration throws
FirstError(errors) ==
  IF \A i \in DOMAIN errors : errors[i] = NoError THEN NoError
  ELSE errors[CHOOSE i \in DOMAIN errors :
                errors[i] # NoError /\ \A j \in 1..(i - 1) : errors[j] = NoError]

WhereClauseError(clause) ==
  LET field == ElementAt(clause, 1)
      operator == ElementAt(clause, 2)
      value == ElementAt(clause, 3)
  IN  IF typeof(field) # "string" \/ trim(field.s) = <<>>
      THEN McpError(ErrorType.INVALID_ARGUMENT,
                    <<"Query", "field", "must", "be", "a", "non-empty", "string">>)
      ELSE IF ~(operator.t = "string" /\ operator.s \in validOperators)
      THEN McpError(ErrorType.INVALID_ARGUMENT,
                    <<"Invalid", "query", "operator", ":">>
                      \o (IF operator.t = "string" THEN operator.s ELSE <<operator.t>>))
      ELSE IF value.t \in {"undefined", "null"}
      THEN McpError(ErrorType.INVALID_ARGUMENT,
                    <<"Query", "value", "cannot", "be", "null", "or", "undefined">>)
      ELSE NoError

OrderByClauseError(clause) ==
  LET field == ElementAt(clause, 1)
      direction == ElementAt(clause, 2)
  IN  IF typeof(field) # "string" \/ trim(field.s) = <<>>
      THEN McpError(ErrorType.INVALID_ARGUMENT,
                    <<"OrderBy", "field", "must", "be", "a", "non-empty", "string">>)
      ELSE IF ~Falsy(direction) /\ direction \notin {JsString(<<"asc">>), JsString(<<"desc">>)}
      THEN McpError(ErrorType.INVALID_ARGUMENT,
                    <<"OrderBy", "direction", "must", "be", "either", "asc", "or", "desc">>)
      ELSE NoError

MsgLimit == <<"Query", "limit", "must", "be", "a", "non-negative", "number">>

\* if (params.limit !== undefined) ...
validateLimit(limit) ==
  IF limit.t # "undefined" /\ (typeof(limit) # "number" \/ limit.n < 0)
  THEN McpError(ErrorType.INVALID_ARGUMENT, MsgLimit)
  ELSE NoError

validateQueryParams(params) ==
  LET whereError ==
        IF Falsy(params.where) THEN NoError
        ELSE IF params.where.t # "array"
        THEN McpError(ErrorType.INVALID_ARGUMENT,
                      <<"Query", "where", "clause", "must", "be", "an", "array">>)
        ELSE FirstError([i \in DOMAIN params.where.items |->
                           WhereClauseError(params.where.items[i])])
      orderByError ==
        IF Falsy(params.orderBy) THEN NoError
        ELSE IF params.orderBy.t # "array"
        THEN McpError(ErrorType.INVALID_ARGUMENT,
                      <<"Query", "orderBy", "must", "be", "an", "array">>)
        ELSE FirstError([i \in DOMAIN params.orderBy.items |->
                           OrderByClauseError(params.orderBy.items[i])])
  IN  IF whereError # NoError THEN whereError
      ELSE IF orderByError # NoError THEN orderByError
      ELSE validateLimit(params.limit)

\* the limit constraint of a query: none, or limit(n)
Unlimited == [limited |-> FALSE, n |-> 0]
LimitedTo(n) == [limited |-> TRUE, n |-> n]

\* if (params.query?.limit) constraints.push(limit(params.query.limit))
ToolLimit(limit) == IF Falsy(limit) THEN Unlimited ELSE LimitedTo(limit.n)

\* limit || 50
ServiceLimit(limit) == IF Falsy(limit) THEN LimitedTo(DefaultLimit) ELSE LimitedTo(limit.n)

\* the documents the collaborator returns for a query over n documents
Matched(n, constraint) ==
  IF constraint.limited /\ constraint.n < n THEN constraint.n ELSE n

QueryResults(count) ==
  JsArray([i \in 1..count |-> JsObject(<< <<<<"id">>, JsString(toString(i))>> >>)])

NoQuery == [present |-> FALSE, where |-> JsUndefined, orderBy |-> JsUndefined,
            limit |-> JsUndefined]
Query(where, orderBy, limit) ==
  [present |-> TRUE, where |-> where, orderBy |-> orderBy, limit |-> limit]

WhereSamples ==
  LET clause(op, v) == JsArray(<<JsString(<<"x">>), op, v>>)
  IN  {JsUndefined, JsArray(<<clause(JsString(<<"==">>), JsNumber(1))>>),
       JsArray(<<clause(JsString(<<"==">>), JsNumber(1)), clause(JsString(<<"~">>), JsNull)>>)}

OrderBySamples ==
  {JsUndefined, JsArray(<<JsArray(<<JsString(<<"x">>)>>)>>),
   JsArray(<<JsArray(<<JsString(<<"x">>), JsString(<<"up">>)>>)>>)}

LimitSamples ==
  {JsUndefined, JsString(<<"1">>), JsNumber(-1)} \cup {JsNumber(n) : n \in 0..MaxQueryDocs}

QueryCalls ==
  {[fn |-> "firestore_query_documents", collection |-> JsString(<<"users">>), query |-> q] :
     q \in {NoQuery} \cup {Query(w, o, l) : w \in WhereSamples, o \in OrderBySamples,
                                            l \in LimitSamples}}
  \cup
  {[fn |-> "firestore_query_documents", collection |-> JsString(<<"a", "/", "b">>),
    query |-> NoQuery]}
  \cup
  {[fn |-> "queryCollection", collection |-> c, query |-> Query(JsUndefined, JsUndefined, l)] :
     c \in {JsString(<<"users">>), JsString(<<"posts">>)},
     l \in {JsUndefined} \cup {JsNumber(n) : n \in 0..MaxQueryDocs}}

QueryIdle == [pc |-> "idle", sent |-> Unlimited, docs |-> 0, count |-> 0, out |-> NoOutcome]

InitQuery ==
  /\ now = 0
  /\ config = RateLimiterConfig(1, MaxWindowTicks * Granule)
  /\ requests = [k \in {QueryKey} |-> NoRecord]
  /\ winOpen = [k \in {QueryKey} |-> -1]
  /\ hits = [k \in {QueryKey} |-> 0]
  /\ admitted = [k \in {QueryKey} |-> 0]
  /\ last = NoCall
  /\ policy \in {p \in Policies : ~p.readOnly /\ ~p.disableAuth /\ ~p.disableStorage}
  /\ session = ""
  /\ inv = <<>>
  /\ arg = [fn |-> "none"]
  /\ res = QueryIdle

QueryCatch(error) ==
  IF error.cls = "FirebaseMcpError" THEN error
  ELSE McpError(ErrorType.FIREBASE,
                Colon(<<"Error", "querying", "documents">>,
                      IF error.message = <<>> THEN <<"Unknown", "error">>
                      ELSE error.message))

\* firestore_query_documents from its first statement to `await getDocs(q)`,
\* or to the throw that ends it
QueryDocuments ==
  /\ res.pc \in {"idle", "done"}
  /\ \E call \in {c \in QueryCalls : c.fn = "firestore_query_documents"} :
       LET invalid ==
             IF validateCollectionPath(call.collection) # NoError
             THEN validateCollectionPath(call.collection)
             ELSE IF call.query.present THEN validateQueryParams(call.query)
             ELSE NoError
       IN  /\ arg' = call
           /\ IF invalid # NoError
              THEN /\ res' = [QueryIdle EXCEPT !.pc = "done",
                                               !.out = Thrown(QueryCatch(invalid))]
                   /\ UNCHANGED rlVars
              ELSE \E d \in {0}, available \in BOOLEAN :
                     /\ CanCheck(QueryKey, d)
                     /\ \E r \in {check(requests, QueryKey, now, now + d, config)} :
                          /\ CheckCall(QueryKey, d, r)
                          /\ res' =
                               IF ~r.ret
                               THEN [QueryIdle EXCEPT !.pc = "done", !.out =
                                       Thrown(McpError(ErrorType.RATE_LIMIT,
                                         <<"Rate", "limit", "exceeded", "for", "querying",
                                           "documents", ".", "Please", "try", "again",
                                           "later", ".">>))]
                               ELSE IF ~available
                               THEN [QueryIdle EXCEPT !.pc = "done", !.out =
                                       Thrown(McpError(ErrorType.FIREBASE,
                                                       MsgFirestoreNotAvailable))]
                               ELSE [QueryIdle EXCEPT !.pc = "awaiting",
                                                      !.sent = ToolLimit(call.query.limit)]
                     /\ UNCHANGED <<config, last>>
  /\ UNCHANGED <<policy, session, inv>>

\* FirebaseService.queryCollection from its first statement to
\* `await query.get()`, or to the throw that ends it
QueryCollection ==
  /\ res.pc \in {"idle", "done"}
  /\ \E call \in {c \in QueryCalls : c.fn = "queryCollection"} :
       /\ arg' = call
       /\ res' = IF checkCollectionRead(policy, call.collection.s[1]) # NoError
                 THEN [QueryIdle EXCEPT !.pc = "done", !.out =
                         Thrown(checkCollectionRead(policy, call.collection.s[1]))]
                 ELSE [QueryIdle EXCEPT !.pc = "awaiting",
                                        !.sent = ServiceLimit(call.query.limit)]
  /\ UNCHANGED <<rlVars, policy, session, inv>>

\* the query settles: with the documents it matched, or with an Error
QuerySettles ==
  /\ res.pc = "awaiting"
  /\ \E settled \in {"ok", "failed"}, docs \in 0..MaxQueryDocs :
       LET count == Matched(docs, res.sent)
           data == JsObject(<< <<<<"collection">>, arg.collection>>,
                               <<<<"count">>, JsNumber(count)>>,
                               <<<<"results">>, QueryResults(count)>> >>)
       IN  res' =
             IF settled = "failed"
             THEN [res EXCEPT !.pc = "done", !.out =
                     Thrown(IF arg.fn = "queryCollection" THEN PlainError(<<>>)
                            ELSE QueryCatch(PlainError(<<>>)))]
             ELSE [res EXCEPT !.pc = "done", !.docs = docs, !.count = count, !.out =
                     Returned(IF arg.fn = "queryCollection"
                              THEN NoOutcome.env
                              ELSE createSuccessResponse(data))]
  /\ UNCHANGED <<rlVars, policy, session, inv, arg>>

QueryTick ==
  /\ now < Granule * MaxSessionTicks
  /\ Tick
  /\ UNCHANGED pipeVars

NextQuery ==
  \/ QueryDocuments
  \/ QueryCollection
  \/ QuerySettles
  \/ QueryTick

SpecQuery == InitQuery /\ [][NextQuery]_vars

(***************************************************************************)
(* C29.  For every limit L that passes query validation (any non-negative  *)
(* number, 0 included), the query sent to the collaborator is bounded to   *)
(* at most L results: it carries a limit constraint of at most L, and no   *)
(* more than L documents come back.                                        *)
(***************************************************************************)
C29_LimitBounds ==
  (/\ res.pc \in {"awaiting", "done"}
   /\ res.out.kind # "throw"
   /\ arg.query.present
   /\ typeof(arg.query.limit) = "number"
   /\ validateLimit(arg.query.limit) = NoError)
    => /\ res.sent.limited
       /\ res.sent.n <= arg.query.limit.n
       /\ res.count <= arg.query.limit.n


(***************************************************************************)
(* C30.  Under readOnly = true the read operations (getDocument,           *)
(* queryCollection, getUser, listFiles, getFileMetadata, getDownloadUrl)   *)
(* are never rejected by the read-only check: the service's security       *)
(* checks reject a read only when its collection is off the allow-list or  *)
(* its capability is disabled, and no answer of a read tool speaks of      *)
(* read-only mode.                                                         *)
(***************************************************************************)
ReadTools ==
  {t \in HandlerTools : ToolInfo[t].gate \in {"collectionRead", "authRead", "storageRead"}}

C30_ReadsIgnoreReadOnly ==
  \A i \in DOMAIN inv :
    (inv[i].pc # "idle" /\ policy.readOnly /\ session \in ReadTools)
      => /\ inv[i].gate = "rejected"
              => \/ session \in FirestoreTools /\ CollectionDenied(policy, inv[i].args.coll)
                 \/ session \in AuthTools /\ policy.disableAuth
                 \/ session \in StorageTools /\ policy.disableStorage
         /\ inv[i].out.kind = "return"
              => ~Includes(inv[i].out.env.text, P_ReadOnlyMode)

\* a read-only server answers a query of a collection with its documents
C30_Witness ==
  /\ policy.readOnly /\ session = "query_collection"
  /\ \E i \in DOMAIN inv :
       /\ inv[i].pc = "done" /\ inv[i].gate = "passed"
       /\ inv[i].out.kind = "return" /\ ~inv[i].out.env.isError

=============================================================================
